---- MODULE Spec2Model ----
(***************************************************************************)
(* Task queue reconciliation of the orchestrator scripts.                  *)
(*                                                                         *)
(* The Store (the tasks table and its history) and the Mirror (one file    *)
(* TASK-<id>.md per task, in a queue directory) are modelled together with *)
(* the reconciliation pass of diagnose_queue_health.py: the three          *)
(* detectors, the auto-fixes and the zombie escalation.  The pass is       *)
(* modelled step by step (detect, one fix per issue, stale-error cleanup,  *)
(* escalation), so that worker transitions (Mirror file move, then Store   *)
(* write) and the clock can interleave with it.                            *)
(*                                                                         *)
(* Store operations (orchestrator.db) are not among the scripts; they are  *)
(* modelled from the specification and are total (they do not raise).      *)
(* A Mirror file <queue-dir>/TASK-<id>.md is the path <<queue-dir, id>>.   *)
(***************************************************************************)
EXTENDS Integers, Sequences, FiniteSets, TLC

(***************************************************************************)
(* Thresholds of diagnose_queue_health.py.                                 *)
(***************************************************************************)
MIN_FILE_AGE_SECONDS == 300
ZOMBIE_CLAIM_HOURS == 2
AGENT_INACTIVE_HOURS == 1
SecondsPerHour == 3600

(***************************************************************************)
(* Bounds of the model.                                                    *)
(***************************************************************************)
MaxPasses == 2
MaxTicks == 1
MaxTransitions == 1

\* The clock value of the initial state (seconds).
StartTime == 20000

Ids == {"A1B2", "ZZZZ"}
Workers == {"w1", "w2"}

\* Queue directories, in the order find_all_task_files scans them.
ALL_QUEUE_DIRS ==
    << "incoming", "claimed", "breakdown", "provisional", "done",
       "failed", "escalated", "recycled", "needs_continuation" >>

Queues == { ALL_QUEUE_DIRS[i] : i \in 1..Len(ALL_QUEUE_DIRS) }

\* Queue directories in which the initial state places files and records.
InitQueues == {"incoming", "claimed", "done"}

\* An absent value (None / NULL) is the empty sequence, a present one <<v>>.
None == << >>
Some(v) == << v >>
IsSome(x) == x # << >>

(***************************************************************************)
(* Text.  A string value is a sequence of tokens, " " being white space.   *)
(***************************************************************************)
RECURSIVE LStrip(_)
LStrip(s) ==
    IF s = << >> THEN << >>
    ELSE IF Head(s) = " " THEN LStrip(Tail(s)) ELSE s

RECURSIVE RStrip(_)
RStrip(s) ==
    IF s = << >> THEN << >>
    ELSE IF s[Len(s)] = " " THEN RStrip(SubSeq(s, 1, Len(s) - 1)) ELSE s

\* str.strip()
Strip(s) == RStrip(LStrip(s))

(***************************************************************************)
(* Mirror file content: its lines and whether the text ends in a newline.  *)
(* A line is [k, v]:                                                       *)
(*   k = "title"    "# [TASK-<id>] " followed by v                         *)
(*   k = a field    "<FIELD>: " followed by v                              *)
(*   k = "failed"   "## FAILED_AT: " followed by v                         *)
(*   k = "h2"       another "## ..." heading                              *)
(*   k = "text"     body text                                              *)
(*   k = "mention"  body text that holds "## FAILED_AT" inside the line    *)
(***************************************************************************)
Line(k, v) == [k |-> k, v |-> v]

MetadataFields ==
    << "ROLE", "PRIORITY", "BRANCH", "CREATED", "CREATED_BY", "PROJECT",
       "BLOCKED_BY", "CHECKS" >>

\* re.search(r"^<key>: (.+)$", content, re.MULTILINE): the first line of that
\* key with at least one character after the separator; 0 when there is none.
RECURSIVE FirstMatchFrom(_, _, _)
FirstMatchFrom(lines, key, i) ==
    IF i > Len(lines) THEN 0
    ELSE IF lines[i].k = key /\ Len(lines[i].v) >= 1 THEN i
    ELSE FirstMatchFrom(lines, key, i + 1)

FirstMatch(lines, key) == FirstMatchFrom(lines, key, 1)

\* The metadata dict as a function from the keys found to their values.
ParsedFields(lines) ==
    LET found == { i \in 1..Len(MetadataFields) :
                     FirstMatch(lines, MetadataFields[i]) # 0 }
    IN  [ f \in { MetadataFields[i] : i \in found } |->
            Strip(lines[FirstMatch(lines, f)].v) ]

\* A parse that does not insist on the required fields.
parse_task_metadata_lenient(content) ==
    LET fields == ParsedFields(content.lines)
        t == FirstMatch(content.lines, "title")
    IN  Some([title |-> IF t = 0 THEN << >> ELSE Strip(content.lines[t].v),
              fields |-> fields])

\* parse_task_metadata: None when the title or the ROLE field is missing.
parse_task_metadata(content) ==
    LET fields == ParsedFields(content.lines)
        t == FirstMatch(content.lines, "title")
    IN  IF t = 0 \/ "ROLE" \notin DOMAIN fields
        THEN None
        ELSE Some([title |-> Strip(content.lines[t].v), fields |-> fields])

\* metadata.get(key, default)
MetaGet(md, key, default) ==
    IF key \in DOMAIN md.fields THEN md.fields[key] ELSE default

\* "## FAILED_AT" in content
HasFailedAt(content) ==
    \E i \in 1..Len(content.lines) : content.lines[i].k \in {"failed", "mention"}

\* Whether line i lies in a match of r"\n## FAILED_AT:.*?(?=\n##|\Z)": a match
\* starts at the newline before a "## FAILED_AT:" line (so never at line 1) and
\* runs up to the newline before the next "##" line, or to the end of the text.
RECURSIVE InFailedSection(_, _)
InFailedSection(lines, i) ==
    IF i <= 1 THEN FALSE
    ELSE IF lines[i].k = "failed" THEN TRUE
    ELSE IF lines[i].k = "h2" THEN FALSE
    ELSE InFailedSection(lines, i - 1)

RECURSIVE KeepLines(_, _)
KeepLines(lines, i) ==
    IF i > Len(lines) THEN << >>
    ELSE (IF InFailedSection(lines, i) THEN << >> ELSE << lines[i] >>)
         \o KeepLines(lines, i + 1)

\* re.sub(r"\n## FAILED_AT:.*?(?=\n##|\Z)", "", content, flags=re.DOTALL)
RemoveFailedSections(content) ==
    LET n == Len(content.lines)
    IN  [ lines |-> KeepLines(content.lines, 1),
          eofnl |-> IF n >= 1 /\ InFailedSection(content.lines, n)
                    THEN FALSE ELSE content.eofnl ]

(***************************************************************************)
(* State.                                                                  *)
(***************************************************************************)
VARIABLES
    tasks,        \* Store: tasks table, a function from the ids present to records
    history,      \* Store: task_history, append-only sequence of events
    mirror,       \* Mirror: function from the paths <<queue-dir, id>> present to files
    quarantine,   \* quarantine area: function from the ids of the files in it to files
    agents,       \* runtime state.json of the workers that have one
    now,          \* the clock (seconds)
    log,          \* QueueManagerLogger: the append-only action log
    pc,           \* position of the reconciliation pass
    issues,       \* result of run_diagnostics of the pass under way (or the last one)
    cursor,       \* index of the next issue of the list being fixed
    counts,       \* counts of run_auto_fixes of the pass under way (or the last one)
    inflight,     \* worker transitions whose file move is done and Store write is not
    passes,       \* completed passes
    ticks,        \* clock advances so far
    transitions,  \* worker transitions begun so far
    outcome,      \* the result of each claim attempt made, by <<worker, id>>
    tainted,      \* a worker step or a clock advance happened during the pass under way
    quiet,        \* consecutive completed passes with no worker step or clock advance
    faults,       \* whether the Store and the file system may fail in this behaviour
    work,         \* per task: commits_count and turns_used of the tasks table, lineage depth
    repo,         \* the git state approve_orchestrator_task works on
    verdicts,     \* the burnout classifications made so far
    tally,        \* what the last operator script reported and did
    runs,         \* operator script runs so far
    needs_rebase, \* Store: the tasks whose needs_rebase flag is set
    pass2,        \* a second pass started while the first is under way: its position and data
    status        \* exit status of the script that ended last (None: none has ended)

vars ==
    << tasks, history, mirror, quarantine, agents, now, log, pc, issues, cursor,
       counts, inflight, passes, ticks, transitions, outcome, tainted, quiet,
       faults, work, repo, verdicts, tally, runs, needs_rebase, pass2, status >>

operatorVars == << faults, work, repo, verdicts, tally, runs, needs_rebase, pass2 >>

\* The outcomes an operation of the Store or of the file system may have:
\* it succeeds (TRUE) or, where failures are considered, raises (FALSE).
Outcomes(f) == IF f THEN BOOLEAN ELSE {TRUE}

storeVars == << tasks, history >>
passVars == << pc, issues, cursor, counts >>

\* A timestamp string: parseable by datetime.fromisoformat (ok) or not.
Stamp(t) == [ok |-> TRUE, t |-> t]
BadStamp == [ok |-> FALSE, t |-> 0]

PathOf(queue, id) == << queue, id >>
PathQueue(path) == path[1]
PathId(path) == path[2]

\* file_path.exists()
FileExists(m, path) == path \in DOMAIN m

\* get_file_age_seconds
get_file_age_seconds(m, path, clock) == clock - m[path].mtime

\* A function with one more (or one replaced) entry, and with one entry less.
Put(f, k, v) == [ x \in DOMAIN f \cup {k} |-> IF x = k THEN v ELSE f[x] ]
Drop(f, k) == [ x \in DOMAIN f \ {k} |-> f[x] ]

(***************************************************************************)
(* Store operations (orchestrator.db), modelled from the specification.    *)
(***************************************************************************)
HistoryEvent(id, event, actor, from, to, clock) ==
    [ task_id |-> id, event |-> event, actor |-> actor,
      from |-> from, to |-> to, timestamp |-> clock ]

\* db.create_task: the record enters the entry queue, unclaimed.
create_task(t, id, file_path, role, priority, branch, blocked_by, project_id, clock) ==
    Put(t, id,
        [ queue |-> "incoming", file_path |-> file_path, role |-> role,
          priority |-> priority, branch |-> branch, blocked_by |-> blocked_by,
          project_id |-> project_id, claimed_by |-> None, claimed_at |-> None,
          attempt_count |-> 0, updated_at |-> clock ])

\* db.update_task_queue, the tasks table: queue and updated_at of the record.
update_task_queue(t, id, queue, clock) ==
    IF id \in DOMAIN t
    THEN [ t EXCEPT ![id].queue = queue, ![id].updated_at = clock ]
    ELSE t

\* db.update_task_queue, the task_history table: one event per queue change.
update_task_history(h, t, id, queue, event, actor, clock) ==
    IF id \in DOMAIN t
    THEN Append(h, HistoryEvent(id, event, actor, t[id].queue, queue, clock))
    ELSE h

\* A claim that does not look at the blockers.
BlockersDone_unchecked(t, id) == TRUE

\* A task may be claimed when every blocker is in done.
BlockersDone(t, id) ==
    IF ~IsSome(t[id].blocked_by) THEN TRUE
    ELSE LET names == t[id].blocked_by[1]
         IN  \A k \in 1..Len(names) :
                names[k] \in {" ", ","}
                \/ (names[k] \in DOMAIN t /\ t[names[k]].queue = "done")

\* A claim that reads the task first and writes later: by the time of the
\* write another worker may hold the task.
CanClaim_read_then_write(t, id) ==
    /\ id \in DOMAIN t
    /\ t[id].queue \in {"incoming", "claimed"}
    /\ BlockersDone(t, id)

\* Whether a claim of the task succeeds: it is in incoming, unclaimed, and
\* none of its blockers is outside done.
CanClaim(t, id) ==
    /\ id \in DOMAIN t
    /\ t[id].queue = "incoming"
    /\ ~IsSome(t[id].claimed_by)
    /\ BlockersDone(t, id)

\* The claim: one conditional update of the tasks table (compare-and-set).
claim_task(t, id, w, clock) ==
    IF CanClaim(t, id)
    THEN [ t EXCEPT ![id].queue = "claimed", ![id].claimed_by = Some(w),
                    ![id].claimed_at = Some(Stamp(clock)), ![id].updated_at = clock ]
    ELSE t

(***************************************************************************)
(* Detection.                                                              *)
(***************************************************************************)
\* The paths find_all_task_files visits: the queue directories in the order of
\* ALL_QUEUE_DIRS, the files of a directory in the order glob yields them
\* (order: a sequence of the ids, any).
ScanPaths(m, order) ==
    LET ni == Len(order)
        all == [ k \in 1..(Len(ALL_QUEUE_DIRS) * ni) |->
                   PathOf(ALL_QUEUE_DIRS[((k - 1) \div ni) + 1],
                          order[((k - 1) % ni) + 1]) ]
        Present(p) == FileExists(m, p)
    IN  SelectSeq(all, Present)

\* The keys of a dict filled in that order: each id once, at its first place.
RECURSIVE DictKeys(_)
DictKeys(paths) ==
    IF paths = << >> THEN << >>
    ELSE LET rest == DictKeys(SubSeq(paths, 1, Len(paths) - 1))
             id == PathId(paths[Len(paths)])
         IN  IF \E i \in 1..Len(rest) : rest[i] = id THEN rest
             ELSE Append(rest, id)

\* The value the dict holds for an id: the last path visited with that id.
DictValue(paths, id) ==
    LET hits == { i \in 1..Len(paths) : PathId(paths[i]) = id }
    IN  paths[CHOOSE i \in hits : \A j \in hits : j <= i]

\* find_all_task_files: task_id -> (queue_name, file_path), in dict order.
find_all_task_files(m, order) ==
    LET paths == ScanPaths(m, order)
        keys == DictKeys(paths)
    IN  [ i \in 1..Len(keys) |-> DictValue(paths, keys[i]) ]

RECURSIVE Flatten(_)
Flatten(ss) == IF ss = << >> THEN << >> ELSE Head(ss) \o Flatten(Tail(ss))

\* detect_file_db_mismatches
detect_file_db_mismatches(t, m, clock, order) ==
    LET files == find_all_task_files(m, order)
        Issue(path) ==
            LET id == PathId(path)
                age == get_file_age_seconds(m, path, clock)
            IN  IF id \notin DOMAIN t THEN << >>
                ELSE IF PathQueue(path) = t[id].queue THEN << >>
                ELSE IF age >= MIN_FILE_AGE_SECONDS
                THEN << [ task_id |-> id, db_queue |-> t[id].queue,
                          file_queue |-> PathQueue(path), file_path |-> path,
                          file_mtime |-> m[path].mtime, age_seconds |-> age ] >>
                ELSE << >>
    IN  Flatten([ i \in 1..Len(files) |-> Issue(files[i]) ])

\* Orphan detection without the minimum age.
detect_orphan_files_any_age(t, m, clock, order) ==
    LET files == find_all_task_files(m, order)
        Issue(path) ==
            LET id == PathId(path)
                age == get_file_age_seconds(m, path, clock)
            IN  IF id \in DOMAIN t THEN << >>
                ELSE << [ task_id |-> id, file_queue |-> PathQueue(path),
                          file_path |-> path, file_mtime |-> m[path].mtime,
                          age_seconds |-> age ] >>
    IN  Flatten([ i \in 1..Len(files) |-> Issue(files[i]) ])

\* detect_orphan_files
detect_orphan_files(t, m, clock, order) ==
    LET files == find_all_task_files(m, order)
        Issue(path) ==
            LET id == PathId(path)
                age == get_file_age_seconds(m, path, clock)
            IN  IF id \in DOMAIN t THEN << >>
                ELSE IF age >= MIN_FILE_AGE_SECONDS
                THEN << [ task_id |-> id, file_queue |-> PathQueue(path),
                          file_path |-> path, file_mtime |-> m[path].mtime,
                          age_seconds |-> age ] >>
                ELSE << >>
    IN  Flatten([ i \in 1..Len(files) |-> Issue(files[i]) ])

\* The inactivity of the agent of a claim: None when it has no state.json, no
\* last_finished, or a last_finished that does not parse.
AgentInactiveSeconds(a, worker, clock) ==
    IF worker \notin DOMAIN a THEN None
    ELSE IF ~IsSome(a[worker].last_finished) THEN None
    ELSE IF ~a[worker].last_finished[1].ok THEN None
    ELSE Some(clock - a[worker].last_finished[1].t)

\* agent_last_active of the issue
AgentLastActive(a, worker) ==
    IF worker \in DOMAIN a THEN a[worker].last_finished ELSE None

\* The claim-age threshold taken in minutes instead of hours.
ClaimAgeReached_minutes(claim_seconds) ==
    claim_seconds >= ZOMBIE_CLAIM_HOURS * 60

\* Whether a claim is old enough to be suspect.
ClaimAgeReached(claim_seconds) ==
    claim_seconds >= ZOMBIE_CLAIM_HOURS * SecondsPerHour

\* The condition under which a claim is reported as a zombie.
IsZombie(inactive) ==
    ~IsSome(inactive) \/ inactive[1] >= AGENT_INACTIVE_HOURS * SecondsPerHour

\* detect_zombie_claims (order: the order in which the query yields the rows)
detect_zombie_claims(t, a, clock, order) ==
    LET Issue(id) ==
            IF id \notin DOMAIN t THEN << >>
            ELSE IF ~(t[id].queue = "claimed" /\ IsSome(t[id].claimed_by)
                      /\ IsSome(t[id].claimed_at)) THEN << >>
            ELSE IF ~t[id].claimed_at[1].ok THEN << >>
            ELSE IF ~ClaimAgeReached(clock - t[id].claimed_at[1].t) THEN << >>
            ELSE LET inactive == AgentInactiveSeconds(a, t[id].claimed_by[1], clock)
                 IN  IF IsZombie(inactive)
                     THEN << [ task_id |-> id, claimed_by |-> t[id].claimed_by[1],
                               claimed_at |-> t[id].claimed_at[1],
                               claim_duration_seconds |-> clock - t[id].claimed_at[1].t,
                               agent_last_active |-> AgentLastActive(a, t[id].claimed_by[1]),
                               agent_inactive_seconds |-> inactive ] >>
                     ELSE << >>
    IN  Flatten([ i \in 1..Len(order) |-> Issue(order[i]) ])

\* run_diagnostics
run_diagnostics(t, m, a, clock, order) ==
    [ timestamp |-> clock,
      file_db_mismatches |-> detect_file_db_mismatches(t, m, clock, order),
      orphan_files |-> detect_orphan_files(t, m, clock, order),
      zombie_claims |-> detect_zombie_claims(t, a, clock, order) ]

(***************************************************************************)
(* Auto-fixes.                                                             *)
(***************************************************************************)
\* logger.log(fix_type, message): the entry keeps what the message names.
LogEntry(fix_type, id, what, from, to) ==
    [ fix_type |-> fix_type, task_id |-> id, what |-> what, from |-> from, to |-> to ]

\* The Store wins: the sync writes back the queue the Store already names.
fix_file_db_mismatch_store_wins(t, h, m, lg, issue, clock, db_ok) ==
    [ tasks |-> update_task_queue(t, issue.task_id, issue.db_queue, clock),
      history |-> update_task_history(h, t, issue.task_id, issue.db_queue,
                                      "file_db_sync", "queue-manager", clock),
      log |-> Append(lg, LogEntry("file-db-sync", issue.task_id, "updated DB",
                                  issue.db_queue, issue.file_queue)),
      fixed |-> TRUE ]

\* fix_file_db_mismatch after the existence test: the Store is updated to
\* match the file location reported (db_ok: db.update_task_queue does not
\* raise).
sync_db_queue(t, h, lg, issue, clock, db_ok) ==
    IF ~db_ok
    THEN [ tasks |-> t, history |-> h,
           log |-> Append(lg, LogEntry("escalate", issue.task_id, "failed to sync DB",
                                       issue.db_queue, issue.file_queue)),
           fixed |-> FALSE ]
    ELSE [ tasks |-> update_task_queue(t, issue.task_id, issue.file_queue, clock),
           history |-> update_task_history(h, t, issue.task_id, issue.file_queue,
                                           "file_db_sync", "queue-manager", clock),
           log |-> Append(lg, LogEntry("file-db-sync", issue.task_id, "updated DB",
                                       issue.db_queue, issue.file_queue)),
           fixed |-> TRUE ]

\* fix_file_db_mismatch: the Store, the log and the value returned.
fix_file_db_mismatch(t, h, m, lg, issue, clock, db_ok) ==
    IF ~FileExists(m, issue.file_path)
    THEN [ tasks |-> t, history |-> h,
           log |-> Append(lg, LogEntry("escalate", issue.task_id, "file disappeared",
                                       issue.db_queue, issue.file_queue)),
           fixed |-> FALSE ]
    ELSE sync_db_queue(t, h, lg, issue, clock, db_ok)

\* The default priority of the tasks table rather than that of the fix.
DefaultPriority_P2 == << "P2" >>

\* The priority and the branch an orphan is registered with when its file
\* names none.
DefaultPriority == << "P1" >>
DefaultBranch == << "main" >>

\* The Store record fix_orphan_file registers from the parsed metadata.
RegisterOrphan(t, issue, md, clock) ==
    create_task(t, issue.task_id, issue.file_path,
                MetaGet(md, "ROLE", << "implement" >>),
                MetaGet(md, "PRIORITY", DefaultPriority),
                MetaGet(md, "BRANCH", DefaultBranch),
                IF "BLOCKED_BY" \in DOMAIN md.fields
                    THEN Some(md.fields["BLOCKED_BY"]) ELSE None,
                IF "PROJECT" \in DOMAIN md.fields
                    THEN Some(md.fields["PROJECT"]) ELSE None,
                clock)

\* What the two filesystem calls of the quarantine may do: both succeed,
\* quarantine_dir.mkdir raises, or os.rename raises.
QuarantineOutcomes(f) == IF f THEN { "ok", "mkdir_raises", "rename_raises" } ELSE { "ok" }

\* A fix that files the orphan under incoming/ instead of leaving it where
\* it lies.
fix_orphan_file_refiling(t, m, q, lg, issue, clock, fs, db_ok) ==
    [ tasks |-> t,
      mirror |-> IF FileExists(m, issue.file_path)
                 THEN Put(Drop(m, issue.file_path), PathOf("incoming", issue.task_id),
                          m[issue.file_path])
                 ELSE m,
      quarantine |-> q,
      log |-> Append(lg, LogEntry("orphan-fix", issue.task_id, "refiled",
                                  issue.file_queue, "incoming")),
      fixed |-> FALSE, raised |-> FALSE ]

\* fix_orphan_file: the Store, the Mirror, the quarantine area, the log, the
\* value returned and whether an exception left the function (fs: the
\* outcome of the quarantine's filesystem calls; db_ok: db.create_task does
\* not raise).  mkdir is called before the try block, os.rename inside it.
fix_orphan_file(t, m, q, lg, issue, clock, fs, db_ok) ==
    IF ~FileExists(m, issue.file_path)
    THEN [ tasks |-> t, mirror |-> m, quarantine |-> q,
           log |-> Append(lg, LogEntry("escalate", issue.task_id, "file disappeared",
                                       issue.file_queue, issue.file_queue)),
           fixed |-> FALSE, raised |-> FALSE ]
    ELSE LET metadata == parse_task_metadata(m[issue.file_path].content)
         IN  IF ~IsSome(metadata) /\ fs = "mkdir_raises"
             THEN [ tasks |-> t, mirror |-> m, quarantine |-> q, log |-> lg,
                    fixed |-> FALSE, raised |-> TRUE ]
             ELSE IF ~IsSome(metadata) /\ fs = "rename_raises"
             THEN [ tasks |-> t, mirror |-> m, quarantine |-> q,
                    log |-> Append(lg, LogEntry("escalate", issue.task_id,
                                                "failed to quarantine",
                                                issue.file_queue, issue.file_queue)),
                    fixed |-> FALSE, raised |-> FALSE ]
             ELSE IF ~IsSome(metadata)
             THEN [ tasks |-> t,
                    mirror |-> Drop(m, issue.file_path),
                    quarantine |-> Put(q, issue.task_id, m[issue.file_path]),
                    log |-> Append(lg, LogEntry("escalate", issue.task_id, "quarantined",
                                                issue.file_queue, "quarantine")),
                    fixed |-> FALSE, raised |-> FALSE ]
             ELSE IF ~db_ok
             THEN [ tasks |-> t, mirror |-> m, quarantine |-> q,
                    log |-> Append(lg, LogEntry("escalate", issue.task_id,
                                                "failed to register in DB",
                                                issue.file_queue, issue.file_queue)),
                    fixed |-> FALSE, raised |-> FALSE ]
             ELSE [ tasks |-> RegisterOrphan(t, issue, metadata[1], clock),
                    mirror |-> m, quarantine |-> q,
                    log |-> Append(lg, LogEntry("orphan-fix", issue.task_id, "registered",
                                                issue.file_queue, issue.file_queue)),
                    fixed |-> TRUE, raised |-> FALSE ]

\* Every task in incoming or claimed is selected, retried or not.
IsRetried_any_attempt(t, id) ==
    /\ id \in DOMAIN t
    /\ t[id].queue \in {"incoming", "claimed"}

\* The rows fix_stale_errors selects: retried tasks in incoming or claimed.
IsRetried(t, id) ==
    /\ id \in DOMAIN t
    /\ t[id].attempt_count > 0
    /\ t[id].queue \in {"incoming", "claimed"}

\* Whether fix_stale_errors rewrites the file of a selected row.
StaleHit(t, m, id) ==
    /\ IsRetried(t, id)
    /\ FileExists(m, PathOf(t[id].queue, id))
    /\ HasFailedAt(m[PathOf(t[id].queue, id)].content)

\* fix_stale_errors: the Mirror, the log and the count returned, over the rows
\* in the order the query yields them (bad: the tasks whose file cannot be
\* read or written).
RECURSIVE fix_stale_errors(_, _, _, _, _, _, _)
fix_stale_errors(t, m, lg, fixed_count, rows, clock, bad) ==
    IF rows = << >>
    THEN [ mirror |-> m, log |-> lg, fixed_count |-> fixed_count ]
    ELSE LET id == Head(rows)
             path == PathOf(t[id].queue, id)
         IN  IF IsRetried(t, id) /\ FileExists(m, path) /\ id \in bad
             THEN fix_stale_errors(
                      t, m,
                      Append(lg, LogEntry("escalate", id, "failed to clean stale error",
                                          t[id].queue, t[id].queue)),
                      fixed_count, Tail(rows), clock, bad)
             ELSE IF StaleHit(t, m, id)
             THEN fix_stale_errors(
                      t,
                      [ m EXCEPT ![path] =
                          [ content |-> RemoveFailedSections(m[path].content),
                            mtime |-> clock ] ],
                      Append(lg, LogEntry("stale-error", id, "removed FAILED_AT",
                                          t[id].queue, t[id].queue)),
                      fixed_count + 1, Tail(rows), clock, bad)
             ELSE fix_stale_errors(t, m, lg, fixed_count, Tail(rows), clock, bad)

\* The log after escalate_zombie_claims: one escalate entry per issue.
RECURSIVE ZombieEntries(_, _)
ZombieEntries(lg, zs) ==
    IF zs = << >> THEN lg
    ELSE ZombieEntries(
             Append(lg, LogEntry("escalate", Head(zs).task_id, "zombie claim",
                                 "claimed", "claimed")),
             Tail(zs))

\* A reclaim of the zombie tasks, which the escalation must not do.
escalate_zombie_claims_reclaim(t, lg, zs) ==
    [ tasks |-> [ id \in DOMAIN t |->
                    IF \E i \in 1..Len(zs) : zs[i].task_id = id
                    THEN [ t[id] EXCEPT !.queue = "incoming", !.claimed_by = None,
                                        !.claimed_at = None ]
                    ELSE t[id] ],
      log |-> ZombieEntries(lg, zs) ]

\* escalate_zombie_claims: the Store (untouched) and the log.
escalate_zombie_claims(t, lg, zs) ==
    [ tasks |-> t, log |-> ZombieEntries(lg, zs) ]

(***************************************************************************)
(* Initial states.                                                         *)
(***************************************************************************)
Title == Line("title", << "Fix", " ", "it" >>)
TextLine == Line("text", << "body" >>)

\* Every field present; ROLE twice (the first one counts), values padded.
ContentFull ==
    [ lines |-> << Title,
                   Line("ROLE", << "implement", " " >>),
                   Line("PRIORITY", << "P2" >>),
                   Line("BRANCH", << " ", "feature" >>),
                   Line("BLOCKED_BY", << "ZZZZ" >>),
                   TextLine,
                   Line("ROLE", << "review" >>) >>,
      eofnl |-> TRUE ]

\* Only the title and ROLE.
ContentMinimal ==
    [ lines |-> << Title, Line("ROLE", << "orchestrator_impl" >>), TextLine >>,
      eofnl |-> TRUE ]

\* No ROLE field (a ROLE line with nothing after the separator does not count).
ContentNoRole ==
    [ lines |-> << Title, Line("ROLE", << >>), Line("PRIORITY", << "P1" >>), TextLine >>,
      eofnl |-> TRUE ]

\* No title line.
ContentNoTitle ==
    [ lines |-> << Line("ROLE", << "implement" >>), TextLine >>,
      eofnl |-> TRUE ]

\* A failure annotation followed by another section.
ContentFailedMid ==
    [ lines |-> << Title, Line("ROLE", << "implement" >>), TextLine,
                   Line("failed", << "2026-01-01T00:00:00" >>), TextLine,
                   Line("h2", << "Notes" >>), TextLine >>,
      eofnl |-> TRUE ]

\* A failure annotation that runs to the end of the file.
ContentFailedEnd ==
    [ lines |-> << Title, Line("ROLE", << "implement" >>),
                   Line("failed", << "2026-01-01T00:00:00" >>), TextLine >>,
      eofnl |-> TRUE ]

\* Body text that mentions "## FAILED_AT" inside a line.
ContentMention ==
    [ lines |-> << Title, Line("ROLE", << "implement" >>),
                   Line("mention", << "see", " ", "## FAILED_AT" >>) >>,
      eofnl |-> FALSE ]

Contents ==
    { ContentFull, ContentMinimal, ContentNoRole, ContentNoTitle,
      ContentFailedMid, ContentFailedEnd, ContentMention }

\* A Store record as the initial state holds it.
InitTask(id, queue, claimed_by, claimed_at, attempts) ==
    [ queue |-> queue, file_path |-> PathOf(queue, id), role |-> << "implement" >>,
      priority |-> << "P1" >>, branch |-> << "main" >>, blocked_by |-> None,
      project_id |-> None, claimed_by |-> claimed_by, claimed_at |-> claimed_at,
      attempt_count |-> attempts, updated_at |-> StartTime - 3 * SecondsPerHour ]

\* The Mirror file a task may start with: old enough to be looked at, or
\* younger than the minimum age.
OldFile(c) == [ content |-> c, mtime |-> StartTime - MIN_FILE_AGE_SECONDS ]
YoungFile(c) == [ content |-> c, mtime |-> StartTime - MIN_FILE_AGE_SECONDS + 1 ]

FileIn(q, f) == Some([queue |-> q, file |-> f])

\* A claim by w1 made h hours before the start.
ClaimedTask(id, h, attempts) ==
    InitTask(id, "claimed", Some("w1"), Some(Stamp(StartTime - h * SecondsPerHour)),
             attempts)

Scenario(store, file) == [ store |-> store, file |-> file ]

\* Files with no Store record.
OrphanScenarios(id) ==
    { Scenario(None, FileIn(q, OldFile(c))) :
        q \in InitQueues,
        c \in { ContentFull, ContentMinimal, ContentNoRole, ContentNoTitle } }
    \cup { Scenario(None, FileIn("done", YoungFile(ContentMinimal))) }

\* A Store record, with no file or with a file in the same or another queue.
RecordedScenarios(id) ==
    { Scenario(Some(t), f) :
        t \in { InitTask(id, "incoming", None, None, 0),
                InitTask(id, "incoming", None, None, 1),
                InitTask(id, "done", None, None, 0),
                ClaimedTask(id, 3, 1),
                ClaimedTask(id, 1, 0) },
        f \in { None }
              \cup { FileIn(q, OldFile(ContentMinimal)) : q \in InitQueues }
              \cup { FileIn(q, YoungFile(ContentMinimal)) : q \in InitQueues } }

\* A Store record and a file that holds, or mentions, a failure annotation.
StaleScenarios(id) ==
    { Scenario(Some(t), FileIn(q, OldFile(c))) :
        t \in { InitTask(id, "incoming", None, None, 0),
                InitTask(id, "incoming", None, None, 1),
                ClaimedTask(id, 3, 1) },
        q \in { "incoming", "claimed" },
        c \in { ContentFailedMid, ContentFailedEnd, ContentMention } }

\* What a task may start as.
Scenarios(id) ==
    IF id = "A1B2"
    THEN OrphanScenarios(id) \cup RecordedScenarios(id) \cup StaleScenarios(id)
    ELSE { Scenario(None, None),
           Scenario(None, FileIn("incoming", OldFile(ContentNoRole))),
           Scenario(Some(InitTask(id, "incoming", None, None, 1)),
                    FileIn("done", OldFile(ContentMinimal))),
           Scenario(Some(ClaimedTask(id, ZOMBIE_CLAIM_HOURS, 0)),
                    FileIn("claimed", YoungFile(ContentFailedEnd))) }

\* The runtime state of worker w1 (None: no state.json); w2 has none.
AgentOptions ==
    { None,
      Some([last_finished |-> None]),
      Some([last_finished |-> Some(BadStamp)]),
      Some([last_finished |-> Some(Stamp(StartTime - AGENT_INACTIVE_HOURS * SecondsPerHour))]),
      Some([last_finished |-> Some(Stamp(StartTime - AGENT_INACTIVE_HOURS * SecondsPerHour + 1))]) }

NoIssues == [ timestamp |-> 0, file_db_mismatches |-> << >>, orphan_files |-> << >>,
              zombie_claims |-> << >> ]

NoCounts == [ file_db_syncs |-> 0, orphans_registered |-> 0, stale_errors_cleaned |-> 0,
              zombies_escalated |-> 0 ]

\* No second pass has been started (start: the Store and the Mirror the two
\* passes began with, kept where two passes are compared with two in a row).
NoPass2 == [ pc |-> "idle", issues |-> NoIssues, cursor |-> 1, counts |-> NoCounts,
             start |-> << >> ]

InitPass ==
    /\ pc = "idle"
    /\ issues = NoIssues
    /\ cursor = 1
    /\ counts = NoCounts
    /\ passes = 0
    /\ tainted = FALSE
    /\ quiet = 0

\* No operator script has run, and nothing fails.
NoRepo == [ sub_pushed |-> FALSE, ref |-> "dirty" ]
NoTally == [ script |-> "none", accepted |-> 0, recycled |-> 0, errors |-> 0 ]

NoOperator ==
    /\ faults = FALSE
    /\ work = << >>
    /\ repo = NoRepo
    /\ verdicts = {}
    /\ tally = NoTally
    /\ runs = 0
    /\ needs_rebase = {}
    /\ pass2 = NoPass2
    /\ status = None

\* The Store and the Mirror of an assignment of scenarios to the tasks.
StoreOf(sc) == [ i \in { j \in Ids : IsSome(sc[j].store) } |-> sc[i].store[1] ]
MirrorOf(sc) ==
    [ p \in { PathOf(sc[j].file[1].queue, j) : j \in { k \in Ids : IsSome(sc[k].file) } }
        |-> sc[PathId(p)].file[1].file ]

Init ==
    /\ \E sc \in [Ids -> UNION { Scenarios(i) : i \in Ids }] :
          /\ \A i \in Ids : sc[i] \in Scenarios(i)
          /\ tasks = StoreOf(sc)
          /\ mirror = MirrorOf(sc)
    /\ \E a \in AgentOptions :
          agents = [ w \in { x \in {"w1"} : IsSome(a) } |-> a[1] ]
    /\ history = << >>
    /\ quarantine = << >>
    /\ now = StartTime
    /\ log = << >>
    /\ inflight = << >>
    /\ ticks = 0
    /\ transitions = 0
    /\ outcome = << >>
    /\ InitPass
    /\ NoOperator

(***************************************************************************)
(* The reconciliation pass (run_auto_fixes), step by step.                 *)
(***************************************************************************)
\* The orders in which a directory listing or a query may yield the tasks.
Orders == { o \in [1..Cardinality(Ids) -> Ids] : \A i \in Ids : \E k \in DOMAIN o : o[k] = i }

\* The step that follows the detection or a fix: the next list that has issues.
PhaseFrom(phase, iss) ==
    IF phase = "mismatches" /\ iss.file_db_mismatches # << >> THEN "mismatches"
    ELSE IF phase \in {"mismatches", "orphans"} /\ iss.orphan_files # << >> THEN "orphans"
    ELSE "stale"

\* A worker step or a clock advance: the passes so far are no longer in a row.
Disturb ==
    /\ tainted' = (pc # "idle")
    /\ quiet' = 0

\* run_auto_fixes, its first lines: run_diagnostics and the counts.
Detect ==
    /\ pc = "idle"
    /\ passes < MaxPasses
    /\ \E order \in Orders :
          issues' = run_diagnostics(tasks, mirror, agents, now, order)
    /\ counts' = [ NoCounts EXCEPT !.zombies_escalated = Len(issues'.zombie_claims) ]
    /\ pc' = PhaseFrom("mismatches", issues')
    /\ cursor' = 1
    /\ tainted' = FALSE
    /\ UNCHANGED << status, operatorVars, outcome, tasks, history, mirror, quarantine, agents, now, log, inflight,
                    passes, ticks, transitions, quiet >>

\* run_auto_fixes, one turn of the loop over the file-DB mismatches.
FixMismatchStep ==
    /\ pc = "mismatches"
    /\ \E db_ok \in Outcomes(faults) :
       LET issue == issues.file_db_mismatches[cursor]
           r == fix_file_db_mismatch(tasks, history, mirror, log, issue, now, db_ok)
           more == cursor < Len(issues.file_db_mismatches)
       IN  /\ tasks' = r.tasks
           /\ history' = r.history
           /\ log' = r.log
           /\ counts' = [ counts EXCEPT !.file_db_syncs =
                            IF r.fixed THEN @ + 1 ELSE @ ]
           /\ pc' = IF more THEN "mismatches" ELSE PhaseFrom("orphans", issues)
           /\ cursor' = IF more THEN cursor + 1 ELSE 1
    /\ UNCHANGED << status, operatorVars, outcome, mirror, quarantine, agents, now, issues, inflight, passes, ticks,
                    transitions, tainted, quiet >>

\* run_auto_fixes, one turn of the loop over the orphan files.  An exception
\* that leaves fix_orphan_file leaves run_auto_fixes and main too: the pass
\* ends there.
FixOrphanStep ==
    /\ pc = "orphans"
    /\ \E fs \in QuarantineOutcomes(faults), db_ok \in Outcomes(faults) :
       LET issue == issues.orphan_files[cursor]
           r == fix_orphan_file(tasks, mirror, quarantine, log, issue, now, fs, db_ok)
           more == cursor < Len(issues.orphan_files)
       IN  /\ tasks' = r.tasks
           /\ mirror' = r.mirror
           /\ quarantine' = r.quarantine
           /\ log' = r.log
           /\ counts' = [ counts EXCEPT !.orphans_registered =
                            IF r.fixed THEN @ + 1 ELSE @ ]
           /\ pc' = IF r.raised THEN "idle" ELSE IF more THEN "orphans" ELSE "stale"
           /\ cursor' = IF more /\ ~r.raised THEN cursor + 1 ELSE 1
           /\ passes' = IF r.raised THEN passes + 1 ELSE passes
           /\ quiet' = IF r.raised THEN 0 ELSE quiet
           /\ status' = IF r.raised THEN Some(1) ELSE status
    /\ UNCHANGED << operatorVars, outcome, history, agents, now, issues, inflight, ticks, transitions,
                    tainted >>

\* run_auto_fixes, the stale-error cleanup.
StaleStep ==
    /\ pc = "stale"
    /\ \E order \in Orders, bad \in (IF faults THEN SUBSET Ids ELSE {{}}) :
          LET r == fix_stale_errors(tasks, mirror, log, 0, order, now, bad)
          IN  /\ mirror' = r.mirror
              /\ log' = r.log
              /\ counts' = [ counts EXCEPT !.stale_errors_cleaned = r.fixed_count ]
    /\ pc' = "escalate"
    /\ UNCHANGED << status, operatorVars, outcome, tasks, history, quarantine, agents, now, issues, cursor, inflight,
                    passes, ticks, transitions, tainted, quiet >>

\* run_auto_fixes, the zombie escalation and the return.
EscalateStep ==
    /\ pc = "escalate"
    /\ LET r == escalate_zombie_claims(tasks, log, issues.zombie_claims)
       IN  /\ tasks' = r.tasks
           /\ log' = r.log
    /\ pc' = "idle"
    /\ passes' = passes + 1
    /\ status' = Some(0)
    /\ quiet' = IF tainted THEN 0 ELSE quiet + 1
    /\ UNCHANGED << operatorVars, outcome, history, mirror, quarantine, agents, now, issues, cursor,
                    counts, inflight, ticks, transitions, tainted >>

\* main without --fix: whether run_diagnostics found anything.
has_issues(result) ==
    \/ result.file_db_mismatches # << >>
    \/ result.orphan_files # << >>
    \/ result.zombie_claims # << >>

\* main without --fix and without --recent: one run of the diagnostics, the
\* report, and the exit status (1 when issues were found, 0 otherwise).
diagnose_only_logging(t, h, m, q, lg, a, clock, order) ==
    LET result == run_diagnostics(t, m, a, clock, order)
    IN  [ tasks |-> t, history |-> h, mirror |-> m, quarantine |-> q,
          log |-> IF has_issues(result)
                  THEN Append(lg, LogEntry("escalate", "", "issues", "", ""))
                  ELSE lg,
          issues |-> result,
          status |-> IF has_issues(result) THEN 1 ELSE 0 ]

\* main without --fix and without --recent: one call of run_diagnostics, a
\* printed report, and the exit status.  No logger is created and nothing is
\* written.
diagnose_only(t, h, m, q, lg, a, clock, order) ==
    LET result == run_diagnostics(t, m, a, clock, order)
    IN  [ tasks |-> t, history |-> h, mirror |-> m, quarantine |-> q, log |-> lg,
          issues |-> result,
          status |-> IF has_issues(result) THEN 1 ELSE 0 ]

DiagnoseOnly ==
    /\ pc = "idle"
    /\ passes < MaxPasses
    /\ \E order \in Orders :
          LET r == diagnose_only(tasks, history, mirror, quarantine, log, agents, now, order)
          IN  /\ tasks' = r.tasks
              /\ history' = r.history
              /\ mirror' = r.mirror
              /\ quarantine' = r.quarantine
              /\ log' = r.log
              /\ issues' = r.issues
              /\ status' = Some(r.status)
    /\ passes' = passes + 1
    /\ UNCHANGED << operatorVars, outcome, agents, now,
                    pc, cursor, counts, inflight, ticks, transitions, tainted, quiet >>

(***************************************************************************)
(* The environment: the clock, and worker or operator transitions, each a  *)
(* Mirror file move followed by a Store write (from the specification).    *)
(***************************************************************************)
TickSteps == { MIN_FILE_AGE_SECONDS, SecondsPerHour }

Tick ==
    /\ ticks < MaxTicks
    /\ \E d \in TickSteps : now' = now + d
    /\ ticks' = ticks + 1
    /\ Disturb
    /\ UNCHANGED << status, operatorVars, outcome, tasks, history, mirror, quarantine, agents, log, pc, issues, cursor,
                    counts, inflight, passes, transitions >>

\* The transitions of the state machine a worker or an operator makes by
\* moving the file first (the claim, incoming -> claimed, starts at the Store).
Transitions ==
    { << "claimed", "provisional" >>, << "provisional", "done" >>,
      << "claimed", "incoming" >> }

\* The first half of a transition: the Mirror file is renamed into the
\* directory of the target queue (a rename keeps the modification time).
WorkerMoveUpTo(limit, allowed) ==
    /\ transitions < limit
    /\ \E id \in DOMAIN tasks, w \in Workers, tr \in allowed :
          LET from == PathOf(tr[1], id)
              to == PathOf(tr[2], id)
          IN  /\ id \notin DOMAIN inflight
              /\ tasks[id].queue = tr[1]
              /\ FileExists(mirror, from)
              /\ ~FileExists(mirror, to)
              /\ tr[1] = "claimed" => tasks[id].claimed_by = Some(w)
              /\ mirror' = Put(Drop(mirror, from), to, mirror[from])
              /\ inflight' = Put(inflight, id, [from |-> tr[1], to |-> tr[2], by |-> w])
    /\ transitions' = transitions + 1
    /\ Disturb
    /\ UNCHANGED << status, operatorVars, outcome, tasks, history, quarantine, agents, now, log, pc, issues, cursor,
                    counts, passes, ticks >>

WorkerMove == WorkerMoveUpTo(MaxTransitions, Transitions)

\* The Store record after a transition into queue `to` by worker w.
Transitioned(rec, to, w, clock) ==
    [ rec EXCEPT
        !.queue = to,
        !.updated_at = clock,
        !.claimed_by = IF to = "claimed" THEN Some(w)
                       ELSE IF to \in {"done", "incoming"} THEN None ELSE @,
        !.claimed_at = IF to = "claimed" THEN Some(Stamp(clock))
                       ELSE IF to \in {"done", "incoming"} THEN None ELSE @,
        !.attempt_count = IF to = "incoming" THEN @ + 1 ELSE @ ]

\* The second half of a transition: the Store write, with its history event.
WorkerCommit ==
    /\ \E id \in DOMAIN inflight :
          LET tr == inflight[id]
          IN  /\ tasks' = [ tasks EXCEPT ![id] = Transitioned(@, tr.to, tr.by, now) ]
              /\ history' = Append(history,
                                   HistoryEvent(id, tr.to, tr.by, tasks[id].queue, tr.to, now))
              /\ inflight' = Drop(inflight, id)
    /\ Disturb
    /\ UNCHANGED << status, operatorVars, outcome, mirror, quarantine, agents, now, log, pc, issues, cursor, counts,
                    passes, ticks, transitions >>

\* No pass is under way.
Quiescent == pc = "idle"

\* Passes do not overlap the environment: the clock advances and the workers
\* act between two passes.
IdleTick == Quiescent /\ Tick
IdleWorkerMove == Quiescent /\ WorkerMove
IdleWorkerCommit == Quiescent /\ WorkerCommit

Next ==
    \/ Detect
    \/ FixMismatchStep
    \/ FixOrphanStep
    \/ StaleStep
    \/ EscalateStep
    \/ IdleTick
    \/ IdleWorkerMove
    \/ IdleWorkerCommit

Spec == Init /\ [][Next]_vars

(***************************************************************************)
(* The pass interleaved with the workers: a worker step may come between   *)
(* any two steps of a pass (the clock stands still).                       *)
(***************************************************************************)
\* Worker transitions of the interleaved specification.
ConcTransitions == 2

ConcScenarios(id) ==
    IF id = "A1B2"
    THEN { Scenario(Some(t), FileIn(q, OldFile(ContentMinimal))) :
             t \in { InitTask(id, "incoming", None, None, 0), ClaimedTask(id, 3, 1) },
             q \in { "incoming", "claimed" } }
         \cup { Scenario(None, FileIn("incoming", OldFile(c))) :
                  c \in { ContentMinimal, ContentNoRole } }
    ELSE { Scenario(None, None),
           Scenario(Some(InitTask(id, "incoming", None, None, 1)),
                    FileIn("incoming", OldFile(ContentFailedEnd))) }

InitConc ==
    /\ \E sc \in [Ids -> UNION { ConcScenarios(i) : i \in Ids }] :
          /\ \A i \in Ids : sc[i] \in ConcScenarios(i)
          /\ tasks = StoreOf(sc)
          /\ mirror = MirrorOf(sc)
    /\ agents = << >>
    /\ history = << >>
    /\ quarantine = << >>
    /\ now = StartTime
    /\ log = << >>
    /\ inflight = << >>
    /\ ticks = 0
    /\ transitions = 0
    /\ outcome = << >>
    /\ InitPass
    /\ NoOperator

\* Worker transitions under the bound of the interleaved specification.
ConcWorkerMove == WorkerMoveUpTo(ConcTransitions, Transitions)

NextConc ==
    \/ Detect
    \/ FixMismatchStep
    \/ FixOrphanStep
    \/ StaleStep
    \/ EscalateStep
    \/ ConcWorkerMove
    \/ WorkerCommit

SpecConc == InitConc /\ [][NextConc]_vars

(***************************************************************************)
(* The mismatch fix as the two operations it is: the existence test of the *)
(* file and the Store update; a worker step may come between them.         *)
(***************************************************************************)
\* fix_file_db_mismatch, file_path.exists() is true: the update comes next.
CheckMismatch ==
    /\ pc = "mismatches"
    /\ FileExists(mirror, issues.file_db_mismatches[cursor].file_path)
    /\ pc' = "writing"
    /\ UNCHANGED << status, operatorVars, outcome, tasks, history, mirror, quarantine, agents,
                    now, log, issues, cursor, counts, inflight, passes, ticks, transitions,
                    tainted, quiet >>

\* fix_file_db_mismatch, file_path.exists() is false: the fix escalates.
MismatchGone ==
    /\ pc = "mismatches"
    /\ ~FileExists(mirror, issues.file_db_mismatches[cursor].file_path)
    /\ FixMismatchStep

\* fix_file_db_mismatch, the Store update after the test, and the turn of the
\* loop of run_auto_fixes that ends with it.
WriteMismatch ==
    /\ pc = "writing"
    /\ \E db_ok \in Outcomes(faults) :
       LET issue == issues.file_db_mismatches[cursor]
           r == sync_db_queue(tasks, history, log, issue, now, db_ok)
           more == cursor < Len(issues.file_db_mismatches)
       IN  /\ tasks' = r.tasks
           /\ history' = r.history
           /\ log' = r.log
           /\ counts' = [ counts EXCEPT !.file_db_syncs =
                            IF r.fixed THEN @ + 1 ELSE @ ]
           /\ pc' = IF more THEN "mismatches" ELSE PhaseFrom("orphans", issues)
           /\ cursor' = IF more THEN cursor + 1 ELSE 1
    /\ UNCHANGED << status, operatorVars, outcome, mirror, quarantine, agents, now, issues,
                    inflight, passes, ticks, transitions, tainted, quiet >>

NextRace ==
    \/ Detect
    \/ CheckMismatch
    \/ MismatchGone
    \/ WriteMismatch
    \/ FixOrphanStep
    \/ StaleStep
    \/ EscalateStep
    \/ ConcWorkerMove
    \/ WorkerCommit

SpecRace == InitConc /\ [][NextRace]_vars

(***************************************************************************)
(* Two passes started while neither has ended: nothing in main or in       *)
(* run_auto_fixes keeps a second process from running the pass.            *)
(***************************************************************************)
\* A pass that has not begun.
NewPass == [ pc |-> "idle", issues |-> NoIssues, cursor |-> 1, counts |-> NoCounts ]

\* The Store, the Mirror, the quarantine area and the log a pass works on.
World(t, h, m, q, lg) ==
    [ tasks |-> t, history |-> h, mirror |-> m, quarantine |-> q, log |-> lg ]

\* run_auto_fixes, the operation at position ps.pc of a pass, on the world w:
\* the diagnostics, one turn of a loop, the cleanup, or the escalation, after
\* which the pass is done.  No call fails, except db.create_task for an id
\* the Store holds already (the id is the key of the tasks table).
pass_step(ps, w, a, clock, order) ==
    CASE ps.pc = "idle" ->
           LET iss == run_diagnostics(w.tasks, w.mirror, a, clock, order)
           IN  [ ps |-> [ ps EXCEPT !.pc = PhaseFrom("mismatches", iss),
                                    !.issues = iss,
                                    !.cursor = 1,
                                    !.counts = [ NoCounts EXCEPT !.zombies_escalated =
                                                   Len(iss.zombie_claims) ] ],
                 w |-> w ]
      [] ps.pc = "mismatches" ->
           LET issue == ps.issues.file_db_mismatches[ps.cursor]
               r == fix_file_db_mismatch(w.tasks, w.history, w.mirror, w.log, issue,
                                         clock, TRUE)
               more == ps.cursor < Len(ps.issues.file_db_mismatches)
           IN  [ ps |-> [ ps EXCEPT !.pc = IF more THEN "mismatches"
                                           ELSE PhaseFrom("orphans", ps.issues),
                                    !.cursor = IF more THEN @ + 1 ELSE 1,
                                    !.counts.file_db_syncs = IF r.fixed THEN @ + 1 ELSE @ ],
                 w |-> [ w EXCEPT !.tasks = r.tasks, !.history = r.history, !.log = r.log ] ]
      [] ps.pc = "orphans" ->
           LET issue == ps.issues.orphan_files[ps.cursor]
               r == fix_orphan_file(w.tasks, w.mirror, w.quarantine, w.log, issue, clock,
                                    "ok", issue.task_id \notin DOMAIN w.tasks)
               more == ps.cursor < Len(ps.issues.orphan_files)
           IN  [ ps |-> [ ps EXCEPT !.pc = IF more THEN "orphans" ELSE "stale",
                                    !.cursor = IF more THEN @ + 1 ELSE 1,
                                    !.counts.orphans_registered =
                                        IF r.fixed THEN @ + 1 ELSE @ ],
                 w |-> [ w EXCEPT !.tasks = r.tasks, !.mirror = r.mirror,
                                  !.quarantine = r.quarantine, !.log = r.log ] ]
      [] ps.pc = "stale" ->
           LET r == fix_stale_errors(w.tasks, w.mirror, w.log, 0, order, clock, {})
           IN  [ ps |-> [ ps EXCEPT !.pc = "escalate",
                                    !.counts.stale_errors_cleaned = r.fixed_count ],
                 w |-> [ w EXCEPT !.mirror = r.mirror, !.log = r.log ] ]
      [] OTHER ->
           LET r == escalate_zombie_claims(w.tasks, w.log, ps.issues.zombie_claims)
           IN  [ ps |-> [ ps EXCEPT !.pc = "done" ],
                 w |-> [ w EXCEPT !.tasks = r.tasks, !.log = r.log ] ]

\* run_auto_fixes from the position ps to its return.
RECURSIVE run_pass(_, _, _, _, _)
run_pass(ps, w, a, clock, order) ==
    IF ps.pc = "done" THEN w
    ELSE LET r == pass_step(ps, w, a, clock, order)
         IN  run_pass(r.ps, r.w, a, clock, order)

\* What a step of either pass leaves of the world.
WorldAfter(w) ==
    /\ tasks' = w.tasks
    /\ history' = w.history
    /\ mirror' = w.mirror
    /\ quarantine' = w.quarantine
    /\ log' = w.log

\* A step of the first process.
Pass1Step ==
    /\ pc # "done"
    /\ \E order \in Orders :
          LET r == pass_step([ pc |-> pc, issues |-> issues, cursor |-> cursor,
                               counts |-> counts ],
                             World(tasks, history, mirror, quarantine, log),
                             agents, now, order)
          IN  /\ pc' = r.ps.pc
              /\ issues' = r.ps.issues
              /\ cursor' = r.ps.cursor
              /\ counts' = r.ps.counts
              /\ WorldAfter(r.w)
    /\ passes' = IF pc' = "done" THEN passes + 1 ELSE passes
    /\ UNCHANGED << status, operatorVars, outcome, agents, now, inflight, ticks, transitions,
                    tainted, quiet >>

\* A step of the second process.
Pass2Step ==
    /\ pass2.pc # "done"
    /\ \E order \in Orders :
          LET r == pass_step(pass2, World(tasks, history, mirror, quarantine, log),
                             agents, now, order)
          IN  /\ pass2' = r.ps
              /\ WorldAfter(r.w)
    /\ passes' = IF pass2'.pc = "done" THEN passes + 1 ELSE passes
    /\ UNCHANGED << status, faults, work, repo, verdicts, tally, runs, needs_rebase, outcome,
                    agents, now, pc, issues, cursor, counts, inflight, ticks, transitions,
                    tainted, quiet >>

\* What the two passes find: A1B2 recorded in one queue with its file in the
\* directory of another, or an orphan in incoming/ or claimed/ with or
\* without a role; ZZZZ absent, retried with a failure annotation, or an
\* orphan without a role.
TwoPassScenarios(id) ==
    IF id = "A1B2"
    THEN { Scenario(Some(t), FileIn(q, OldFile(ContentMinimal))) :
             t \in { InitTask(id, "incoming", None, None, 0), ClaimedTask(id, 3, 1) },
             q \in { "incoming", "claimed" } }
         \cup { Scenario(None, FileIn(q, OldFile(c))) :
                  q \in { "incoming", "claimed" }, c \in { ContentMinimal, ContentNoRole } }
    ELSE { Scenario(None, None),
           Scenario(Some(InitTask(id, "incoming", None, None, 1)),
                    FileIn("incoming", OldFile(ContentFailedEnd))),
           Scenario(None, FileIn("incoming", OldFile(ContentNoRole))) }

InitTwo ==
    /\ \E sc \in [Ids -> UNION { TwoPassScenarios(i) : i \in Ids }] :
          /\ \A i \in Ids : sc[i] \in TwoPassScenarios(i)
          /\ tasks = StoreOf(sc)
          /\ mirror = MirrorOf(sc)
    /\ faults = FALSE
    /\ work = << >>
    /\ repo = NoRepo
    /\ verdicts = {}
    /\ tally = NoTally
    /\ runs = 0
    /\ needs_rebase = {}
    /\ status = None
    /\ pass2 = [ NoPass2 EXCEPT !.start = << World(tasks, << >>, mirror, << >>, << >>) >> ]
    /\ agents = << >>
    /\ history = << >>
    /\ quarantine = << >>
    /\ now = StartTime
    /\ log = << >>
    /\ inflight = << >>
    /\ ticks = 0
    /\ transitions = 0
    /\ outcome = << >>
    /\ InitPass

NextTwo ==
    \/ Pass1Step
    \/ Pass2Step

SpecTwo == InitTwo /\ [][NextTwo]_vars

\* The passes in both modes, with --fix or as a dry run, and the workers.
NextDiag ==
    \/ NextConc
    \/ DiagnoseOnly

SpecDiag == InitConc /\ [][NextDiag]_vars

(***************************************************************************)
(* The interleaved pass when the Store and the filesystem may fail: every  *)
(* call the fixes make may raise.                                          *)
(***************************************************************************)
\* The scenarios of the interleaved specification, and for the second task
\* two more: a claim that has outlived its worker, and an orphan file, so
\* that a pass has issues left when the fix of an earlier one fails.
FaultScenarios(id) ==
    IF id = "A1B2"
    THEN ConcScenarios(id)
    ELSE ConcScenarios(id)
         \cup { Scenario(Some(ClaimedTask(id, 3, 1)), FileIn("claimed", OldFile(ContentMinimal))),
                Scenario(None, FileIn("incoming", OldFile(ContentNoRole))) }

InitFault ==
    /\ \E sc \in [Ids -> UNION { FaultScenarios(i) : i \in Ids }] :
          /\ \A i \in Ids : sc[i] \in FaultScenarios(i)
          /\ tasks = StoreOf(sc)
          /\ mirror = MirrorOf(sc)
    /\ agents = << >>
    /\ history = << >>
    /\ quarantine = << >>
    /\ now = StartTime
    /\ log = << >>
    /\ inflight = << >>
    /\ ticks = 0
    /\ transitions = 0
    /\ outcome = << >>
    /\ InitPass
    /\ faults = TRUE
    /\ work = << >>
    /\ repo = NoRepo
    /\ verdicts = {}
    /\ tally = NoTally
    /\ runs = 0
    /\ needs_rebase = {}
    /\ pass2 = NoPass2
    /\ status = None

SpecFault == InitFault /\ [][NextConc]_vars

\* A file of the Mirror that belongs to no Store record is taken away (by an
\* operator, or by a worker that runs without the Store) while a pass may be
\* under way.
OrphanFileRemoved ==
    /\ \E path \in DOMAIN mirror :
          /\ PathId(path) \notin DOMAIN tasks
          /\ mirror' = Drop(mirror, path)
    /\ Disturb
    /\ UNCHANGED << status, operatorVars, outcome, tasks, history, quarantine, agents, now,
                    log, pc, issues, cursor, counts, inflight, passes, ticks, transitions >>

NextVanish ==
    \/ NextConc
    \/ OrphanFileRemoved

SpecVanish == InitFault /\ [][NextVanish]_vars

(***************************************************************************)
(* Claiming: workers race for the tasks in incoming.  A claim is one       *)
(* conditional update of the Store; the Mirror file is moved afterwards.   *)
(***************************************************************************)
\* A worker tries to claim a task (each worker tries each task once).
ClaimAttempt ==
    /\ \E w \in Workers, id \in Ids :
          /\ << w, id >> \notin DOMAIN outcome
          /\ outcome' = Put(outcome, << w, id >>, CanClaim(tasks, id))
          /\ tasks' = claim_task(tasks, id, w, now)
          /\ history' = IF CanClaim(tasks, id)
                        THEN Append(history,
                                    HistoryEvent(id, "claimed", w, "incoming", "claimed", now))
                        ELSE history
    /\ UNCHANGED << status, operatorVars, mirror, quarantine, agents, now, log, pc, issues, cursor, counts,
                    inflight, passes, ticks, transitions, tainted, quiet >>

\* The Mirror side of a claim: the file follows the Store into claimed/.
ClaimMoveFile ==
    /\ \E id \in DOMAIN tasks :
          /\ tasks[id].queue = "claimed"
          /\ FileExists(mirror, PathOf("incoming", id))
          /\ ~FileExists(mirror, PathOf("claimed", id))
          /\ mirror' = Put(Drop(mirror, PathOf("incoming", id)), PathOf("claimed", id),
                           mirror[PathOf("incoming", id)])
    /\ UNCHANGED << status, operatorVars, outcome, tasks, history, quarantine, agents, now, log, pc, issues,
                    cursor, counts, inflight, passes, ticks, transitions, tainted, quiet >>

\* The claimed task is carried forward: submitted, then accepted.
ForwardTransitions == { << "claimed", "provisional" >>, << "provisional", "done" >> }
ForwardMove == WorkerMoveUpTo(ConcTransitions, ForwardTransitions)

\* Both tasks in incoming; ZZZZ may be blocked by A1B2.
InitClaim ==
    /\ \E b \in { None, Some(<< "A1B2" >>) } :
          tasks = [ i \in Ids |->
                      [ InitTask(i, "incoming", None, None, 0) EXCEPT
                          !.blocked_by = IF i = "ZZZZ" THEN b ELSE None ] ]
    /\ mirror = [ p \in { PathOf("incoming", i) : i \in Ids } |-> OldFile(ContentMinimal) ]
    /\ agents = << >>
    /\ history = << >>
    /\ quarantine = << >>
    /\ now = StartTime
    /\ log = << >>
    /\ inflight = << >>
    /\ ticks = 0
    /\ transitions = 0
    /\ outcome = << >>
    /\ InitPass
    /\ NoOperator

NextClaim ==
    \/ ClaimAttempt
    \/ ClaimMoveFile
    \/ ForwardMove
    \/ WorkerCommit

SpecClaim == InitClaim /\ [][NextClaim]_vars

(***************************************************************************)
(* The provisional queue: burnout classification, acceptance and recycling *)
(* (accept_all.py, diagnose_provisional.py).  queue_utils is not among the *)
(* scripts: is_burned_out, accept_completion and recycle_to_breakdown are  *)
(* modelled from the specification.  DB mode is taken to be enabled.       *)
(***************************************************************************)
\* The turn ceiling of the burnout policy (the scripts pass none: the default
\* of is_burned_out applies).
BURNED_OUT_TURN_THRESHOLD == 20

\* The depth cap of the recycler.
MaxRecycleDepth == 2

\* Runs of the operator scripts in a behaviour.
MaxRuns == 3

\* The ids recycle_to_breakdown gives the breakdown tasks it creates.
BreakdownIds == << "B001", "B002", "B003", "B004", "B005", "B006" >>

\* A classification that ignores the commits.
is_burned_out_turns_only(commits_count, turns_used, threshold) ==
    turns_used > threshold

\* is_burned_out: no commit, and more turns than the ceiling.
is_burned_out(commits_count, turns_used, threshold) ==
    commits_count = 0 /\ turns_used > threshold

\* task.get(key, 0) or 0
OrZero(x) == IF IsSome(x) THEN x[1] ELSE 0

\* The classification the scripts make of a task, with the inputs it had.
Verdict(w, id) ==
    [ commits_count |-> OrZero(w[id].commits_count),
      turns_used |-> OrZero(w[id].turns_used),
      burned |-> is_burned_out(OrZero(w[id].commits_count), OrZero(w[id].turns_used),
                               BURNED_OUT_TURN_THRESHOLD) ]

\* diagnose_task: the value returned.
diagnose_task(w, id) == Verdict(w, id).burned

\* accept_completion: the file goes to done/, the Store queue becomes done,
\* the claim is cleared, one history event is appended.
accept_completion(st, file_path, validator, clock) ==
    LET id == PathId(file_path)
        moved == IF FileExists(st.mirror, file_path)
                 THEN Put(Drop(st.mirror, file_path), PathOf("done", id),
                          st.mirror[file_path])
                 ELSE st.mirror
    IN  [ st EXCEPT
            !.tasks = [ st.tasks EXCEPT
                          ![id] = [ Transitioned(@, "done", validator, clock) EXCEPT
                                      !.file_path = PathOf("done", id) ] ],
            !.history = Append(st.history,
                               HistoryEvent(id, "accepted", validator,
                                            st.tasks[id].queue, "done", clock)),
            !.mirror = moved ]

\* An id generator that hands out an id the Store already holds.
FreshFrom_reused(t, i) ==
    IF DOMAIN t = {} THEN None ELSE Some(CHOOSE id \in DOMAIN t : TRUE)

\* The first id recycle_to_breakdown has not used yet.
RECURSIVE FreshFrom(_, _)
FreshFrom(t, i) ==
    IF i > Len(BreakdownIds) THEN None
    ELSE IF BreakdownIds[i] \notin DOMAIN t THEN Some(BreakdownIds[i])
    ELSE FreshFrom(t, i + 1)

\* A recycler that never reports the depth cap.
DepthCapReached_never(depth, cap) == FALSE

\* A recycler that reports the depth cap for every task.
DepthCapReached_always(depth, cap) == TRUE

\* The task has been recycled as often as the cap allows.
DepthCapReached(depth, cap) == depth >= cap

\* recycle_to_breakdown: None at the depth cap; otherwise the task goes to
\* recycled and a new breakdown task, one level deeper, is created.
recycle_to_breakdown(st, file_path, clock) ==
    LET id == PathId(file_path)
        fresh == FreshFrom(st.tasks, 1)
    IN  IF DepthCapReached(st.work[id].depth, MaxRecycleDepth) \/ ~IsSome(fresh)
        THEN [ result |-> None, st |-> st ]
        ELSE LET new == fresh[1]
                 rec == [ create_task(st.tasks, new, PathOf("breakdown", new),
                                      << "breakdown" >>, st.tasks[id].priority,
                                      st.tasks[id].branch, None,
                                      st.tasks[id].project_id, clock)[new]
                            EXCEPT !.queue = "breakdown" ]
                 file == IF FileExists(st.mirror, file_path)
                         THEN st.mirror[file_path]
                         ELSE [ content |-> ContentMinimal, mtime |-> clock ]
             IN  [ result |-> Some([action |-> "recycled", breakdown_task_id |-> new]),
                   st |->
                     [ st EXCEPT
                         !.tasks = Put([ st.tasks EXCEPT
                                           ![id].queue = "recycled",
                                           ![id].claimed_by = None,
                                           ![id].updated_at = clock,
                                           ![id].file_path = PathOf("recycled", id) ],
                                       new, rec),
                         !.history = Append(st.history,
                                            HistoryEvent(id, "recycled", "recycler",
                                                         st.tasks[id].queue, "recycled",
                                                         clock)),
                         !.mirror = Put(Put(Drop(st.mirror, file_path),
                                            PathOf("recycled", id), file),
                                        PathOf("breakdown", new),
                                        [ content |-> ContentMinimal, mtime |-> clock ]),
                         !.work = Put(st.work, new,
                                      [ commits_count |-> None, turns_used |-> None,
                                        depth |-> st.work[id].depth + 1,
                                        parent |-> Some(id) ]) ] ]

\* What a call of queue_utils does for a task: it works ("ok"), it raises
\* ("raise"), or, for the recycler, it returns something else ("other").
Fates(f) == IF f THEN {"ok", "raise", "other"} ELSE {"ok"}

\* What a call of queue_utils does in accept_all and diagnose_provisional: the
\* recycler returns a dict with action "recycled" or None, or the call raises.
CallFates(f) == Fates(f) \ {"other"}

\* The state the scripts work on, with their counters.
ScriptState(t, h, m, w) ==
    [ tasks |-> t, history |-> h, mirror |-> m, work |-> w,
      accepted |-> 0, recycled |-> 0, errors |-> 0, verdicts |-> {} ]

\* A loop that prints the error of a failed call and counts nothing for it.
RECURSIVE accept_all_loop_silent(_, _, _, _)
accept_all_loop_silent(st, todo, fate, clock) ==
    IF todo = << >> THEN st
    ELSE
      LET id == Head(todo)
          file_path == st.tasks[id].file_path
          v == Verdict(st.work, id)
          seen == [ st EXCEPT !.verdicts = @ \cup {v} ]
          next ==
            IF file_path = << >> \/ fate[id] # "ok" THEN seen
            ELSE IF is_burned_out(v.commits_count, v.turns_used, BURNED_OUT_TURN_THRESHOLD)
            THEN LET r == recycle_to_breakdown(seen, file_path, clock)
                 IN  IF IsSome(r.result)
                     THEN [ r.st EXCEPT !.recycled = @ + 1 ]
                     ELSE [ accept_completion(r.st, file_path, "manual-accept", clock)
                              EXCEPT !.accepted = @ + 1 ]
            ELSE [ accept_completion(seen, file_path, "manual-accept", clock)
                     EXCEPT !.accepted = @ + 1 ]
      IN  accept_all_loop_silent(next, Tail(todo), fate, clock)

\* accept_all.main, the loop over the provisional tasks.
RECURSIVE accept_all_loop(_, _, _, _)
accept_all_loop(st, todo, fate, clock) ==
    IF todo = << >> THEN st
    ELSE
      LET id == Head(todo)
          file_path == st.tasks[id].file_path
          v == Verdict(st.work, id)
          seen == [ st EXCEPT !.verdicts = @ \cup {v} ]
          next ==
            IF file_path = << >> THEN st
            ELSE IF is_burned_out(v.commits_count, v.turns_used, BURNED_OUT_TURN_THRESHOLD)
            THEN IF fate[id] = "raise" THEN [ seen EXCEPT !.errors = @ + 1 ]
                 ELSE IF fate[id] = "other" THEN seen
                 ELSE LET r == recycle_to_breakdown(seen, file_path, clock)
                      IN  IF IsSome(r.result) /\ r.result[1].action = "recycled"
                          THEN [ r.st EXCEPT !.recycled = @ + 1 ]
                          ELSE IF r.result = None
                          THEN [ accept_completion(r.st, file_path, "manual-accept", clock)
                                   EXCEPT !.accepted = @ + 1 ]
                          ELSE r.st
            ELSE IF fate[id] = "raise" THEN [ seen EXCEPT !.errors = @ + 1 ]
                 ELSE [ accept_completion(seen, file_path, "manual-accept", clock)
                          EXCEPT !.accepted = @ + 1 ]
      IN  accept_all_loop(next, Tail(todo), fate, clock)

\* diagnose_provisional.main, the loop over the provisional tasks.
RECURSIVE diagnose_provisional_loop(_, _, _, _, _)
diagnose_provisional_loop(st, todo, do_recycle, fate, clock) ==
    IF todo = << >> THEN st
    ELSE
      LET id == Head(todo)
          file_path == st.tasks[id].file_path
          burned == diagnose_task(st.work, id)
          seen == [ st EXCEPT !.verdicts = @ \cup {Verdict(st.work, id)} ]
          next ==
            IF ~do_recycle \/ file_path = << >> THEN seen
            ELSE IF burned
            THEN IF fate[id] # "ok" THEN seen
                 ELSE LET r == recycle_to_breakdown(seen, file_path, clock)
                      IN  IF IsSome(r.result) /\ r.result[1].action = "recycled"
                          THEN [ r.st EXCEPT !.recycled = @ + 1 ]
                          ELSE IF r.result = None
                          THEN [ accept_completion(r.st, file_path, "manual-accept", clock)
                                   EXCEPT !.accepted = @ + 1 ]
                          ELSE r.st
            ELSE IF fate[id] = "raise" THEN seen
                 ELSE [ accept_completion(seen, file_path, "manual-accept", clock)
                          EXCEPT !.accepted = @ + 1 ]
      IN  diagnose_provisional_loop(next, Tail(todo), do_recycle, fate, clock)

\* list_tasks(queue): the tasks of the queue, in any order.
list_tasks(t, queue) ==
    LET S == { id \in DOMAIN t : t[id].queue = queue }
    IN  { f \in [1..Cardinality(S) -> S] : \A i, j \in 1..Cardinality(S) :
                                              f[i] = f[j] => i = j }

\* The state a script leaves behind.
ScriptDone(st, script) ==
    /\ tasks' = st.tasks
    /\ history' = st.history
    /\ mirror' = st.mirror
    /\ work' = st.work
    /\ verdicts' = verdicts \cup st.verdicts
    /\ tally' = [ script |-> script, accepted |-> st.accepted,
                  recycled |-> st.recycled, errors |-> st.errors ]
    /\ runs' = runs + 1
    /\ status' = Some(0)
    /\ UNCHANGED << needs_rebase, pass2, faults, repo, quarantine, agents, now, log, pc, issues, cursor, counts,
                    inflight, passes, ticks, transitions, outcome, tainted, quiet >>

\* accept_all.main
AcceptAll ==
    /\ runs < MaxRuns
    /\ \E todo \in list_tasks(tasks, "provisional"), fate \in [DOMAIN tasks -> CallFates(faults)] :
          /\ todo # << >>
          /\ ScriptDone(accept_all_loop(ScriptState(tasks, history, mirror, work),
                                        todo, fate, now),
                        "accept_all")

\* diagnose_provisional.main over the provisional queue, as a dry run or
\* with --recycle.
DiagnoseProvisional ==
    /\ runs < MaxRuns
    /\ \E todo \in list_tasks(tasks, "provisional"),
          fate \in [DOMAIN tasks -> CallFates(faults)], do_recycle \in BOOLEAN :
          /\ todo # << >>
          /\ ScriptDone(diagnose_provisional_loop(ScriptState(tasks, history, mirror, work),
                                                  todo, do_recycle, fate, now),
                        IF do_recycle THEN "diagnose_provisional --recycle"
                        ELSE "diagnose_provisional")

\* diagnose_provisional.main with task ids: the tasks named are classified,
\* whatever their queue, and nothing is changed.
DiagnoseIds ==
    /\ runs < MaxRuns
    /\ \E id \in DOMAIN tasks :
          ScriptDone([ ScriptState(tasks, history, mirror, work) EXCEPT
                         !.verdicts = {Verdict(work, id)} ],
                     "diagnose_provisional ids")

\* What an attempt may come back with: commits and turns.
AttemptResults ==
    { << None, None >>, << Some(0), Some(20) >>, << Some(0), Some(21) >>,
      << Some(0), Some(40) >>, << Some(1), Some(40) >>, << Some(3), Some(0) >>,
      << None, Some(40) >> }

\* A breakdown task is worked on and submitted; in a lineage that keeps
\* burning out it comes back without a commit and over the ceiling.
Rework ==
    /\ \E id \in DOMAIN tasks, res \in { << Some(0), Some(40) >>, << Some(1), Some(40) >> } :
          /\ tasks[id].queue = "breakdown"
          /\ FileExists(mirror, PathOf("breakdown", id))
          /\ tasks' = [ tasks EXCEPT ![id].queue = "provisional",
                                     ![id].updated_at = now,
                                     ![id].file_path = PathOf("provisional", id) ]
          /\ history' = Append(history, HistoryEvent(id, "submitted", "w1", "breakdown",
                                                     "provisional", now))
          /\ mirror' = Put(Drop(mirror, PathOf("breakdown", id)), PathOf("provisional", id),
                           mirror[PathOf("breakdown", id)])
          /\ work' = [ work EXCEPT ![id].commits_count = res[1],
                                   ![id].turns_used = res[2] ]
    /\ UNCHANGED << status, needs_rebase, pass2, faults, repo, verdicts, tally, runs, quarantine, agents, now, log, pc,
                    issues, cursor, counts, inflight, passes, ticks, transitions, outcome,
                    tainted, quiet >>

(***************************************************************************)
(* Approval of a task of the infra role (approve_orchestrator_task.py):    *)
(* push the submodule, commit and push the submodule ref on main, accept   *)
(* the task in the Store.  repo.sub_pushed: the worker's commits are on    *)
(* the shared branch of the submodule; repo.ref: the update of the         *)
(* submodule ref is only in the working tree ("dirty"), committed on the   *)
(* local main ("committed"), or on the remote main ("pushed").             *)
(***************************************************************************)
\* The role the script approves.
InfraRole == << "orchestrator_impl" >>

\* What the commands of one run do: the branches checked out, and how each
\* git command that may fail ends.
GitInputs ==
    [ on_main : BOOLEAN, sub_on_branch : BOOLEAN,
      push_sub : {"ok", "fail"},
      commit : {"ok", "raise"},
      push_main : {"ok", "fail", "diverged"},
      retry : {"ok", "raise"} ]

\* db.accept_completion: the Store side of the acceptance alone.
db_accept(st, id, validator, clock) ==
    [ st EXCEPT
        !.tasks = [ st.tasks EXCEPT ![id] = Transitioned(@, "done", validator, clock) ],
        !.history = Append(st.history,
                           HistoryEvent(id, "accepted", validator,
                                        st.tasks[id].queue, "done", clock)) ]

\* git add orchestrator; git diff --cached --quiet: nothing is staged when
\* HEAD of the local main already holds the submodule ref.
RefUpToDate(ref) == ref \in {"committed", "pushed"}

\* Steps 3 and 4 of main: the repository after them, and whether main went
\* on to accept the task (it exits or raises otherwise).
Publish(rp, git) ==
    IF git.push_sub = "fail" THEN [ repo |-> rp, goes_on |-> FALSE ]
    ELSE LET pushed == [ rp EXCEPT !.sub_pushed = TRUE ]
         IN  IF RefUpToDate(rp.ref) THEN [ repo |-> pushed, goes_on |-> TRUE ]
             ELSE IF git.commit = "raise" THEN [ repo |-> pushed, goes_on |-> FALSE ]
             ELSE IF git.push_main = "ok"
                     \/ (git.push_main = "diverged" /\ git.retry = "ok")
             THEN [ repo |-> [ pushed EXCEPT !.ref = "pushed" ], goes_on |-> TRUE ]
             ELSE [ repo |-> [ pushed EXCEPT !.ref = "committed" ], goes_on |-> FALSE ]

\* Step 5 of main: the acceptance and the verification of the Store.
AcceptAndVerify(st, id, fate, clock) ==
    LET file_path == st.tasks[id].file_path
        after == IF fate = "other" THEN st
                 ELSE IF file_path # << >>
                 THEN accept_completion(st, file_path, "human", clock)
                 ELSE db_accept(st, id, "human", clock)
    IN  IF after.tasks[id].queue # "done"
        THEN [ after EXCEPT !.tasks = [ after.tasks EXCEPT ![id].queue = "done",
                                                           ![id].claimed_by = None ] ]
        ELSE IF IsSome(after.tasks[id].claimed_by)
        THEN [ after EXCEPT !.tasks = [ after.tasks EXCEPT ![id].claimed_by = None ] ]
        ELSE after

\* approve_orchestrator_task.main for the task the prefix resolves to.
approve_orchestrator_task(st, rp, id, git, fate, clock) ==
    IF st.tasks[id].role # InfraRole THEN [ st |-> st, repo |-> rp, status |-> 1 ]
    ELSE IF st.tasks[id].queue \notin {"provisional", "review_pending"}
    THEN [ st |-> st, repo |-> rp, status |-> 1 ]
    ELSE IF ~git.on_main \/ ~git.sub_on_branch THEN [ st |-> st, repo |-> rp, status |-> 1 ]
    ELSE LET pub == Publish(rp, git)
         IN  IF ~pub.goes_on \/ fate = "raise"
             THEN [ st |-> st, repo |-> pub.repo, status |-> 1 ]
             ELSE [ st |-> AcceptAndVerify(st, id, fate, clock), repo |-> pub.repo,
                    status |-> 0 ]

\* The characters of a task id, and the lower-case form of a character (ids
\* that are never given by prefix are one character here).
IdTable == [ E5F6 |-> << "E", "5", "F", "6" >>, E5A1 |-> << "E", "5", "A", "1" >> ]
IdChars(id) == IF id \in DOMAIN IdTable THEN IdTable[id] ELSE << id >>
LowerOf == [ E |-> "e", F |-> "f", A |-> "a" ]
Lower(c) == IF c \in DOMAIN LowerOf THEN LowerOf[c] ELSE c

\* The LIKE operator of the Store: % stands for any run of characters, _ for
\* any one character, and letters match whatever their case.
RECURSIVE Like(_, _)
Like(str, pattern) ==
    IF pattern = << >> THEN str = << >>
    ELSE IF Head(pattern) = "%"
    THEN Like(str, Tail(pattern)) \/ (str # << >> /\ Like(Tail(str), pattern))
    ELSE /\ str # << >>
         /\ (Head(pattern) = "_" \/ Lower(Head(pattern)) = Lower(Head(str)))
         /\ Like(Tail(str), Tail(pattern))

\* resolve_task_id: SELECT ... WHERE id LIKE '<prefix>%'; the task when
\* exactly one row comes back, nothing otherwise.
resolve_task_id(t, prefix) ==
    LET rows == { id \in DOMAIN t : Like(IdChars(id), prefix \o << "%" >>) }
    IN  IF Cardinality(rows) = 1 THEN Some(CHOOSE id \in rows : TRUE) ELSE None

\* main: argv holds the prefix, if one was given.
approve_main(st, rp, argv, git, fate, clock) ==
    IF argv = None THEN [ st |-> st, repo |-> rp, status |-> 1 ]
    ELSE LET task_info == resolve_task_id(st.tasks, argv[1])
         IN  IF task_info = None THEN [ st |-> st, repo |-> rp, status |-> 1 ]
             ELSE approve_orchestrator_task(st, rp, task_info[1], git, fate, clock)

\* The command lines the script is run with: no argument, a whole id, a
\* prefix of one id, a prefix that two ids share, a prefix of no id, a prefix
\* in the other case, and a prefix that holds the character %.
ApproveArgs ==
    { None, Some(<< "E", "5", "F", "6" >>), Some(<< "E", "5", "A" >>), Some(<< "E", "5" >>),
      Some(<< "X" >>), Some(<< "e", "5", "f" >>), Some(<< "%", "6" >>) }

\* Whether a run reaches its first git command: the prefix resolves, and the
\* task has the infra role and lies in provisional or review_pending.
ReachesGit(t, argv) ==
    /\ argv # None
    /\ resolve_task_id(t, argv[1]) # None
    /\ LET id == resolve_task_id(t, argv[1])[1]
       IN  t[id].role = InfraRole /\ t[id].queue \in {"provisional", "review_pending"}

\* What the git commands and the acceptance of a run may do; a run that is
\* rejected before them has nothing to draw.
GitInputsOf(t, argv) ==
    IF ReachesGit(t, argv) THEN GitInputs ELSE { CHOOSE git \in GitInputs : TRUE }
FatesOf(t, argv, f) ==
    IF ReachesGit(t, argv) THEN Fates(f) ELSE { "ok" }

Approve ==
    /\ runs < MaxRuns
    /\ \E argv \in ApproveArgs :
       \E git \in GitInputsOf(tasks, argv), fate \in FatesOf(tasks, argv, faults) :
          LET r == approve_main(ScriptState(tasks, history, mirror, work),
                                repo, argv, git, fate, now)
          IN  /\ tasks' = r.st.tasks
              /\ history' = r.st.history
              /\ mirror' = r.st.mirror
              /\ repo' = r.repo
              /\ status' = Some(r.status)
              /\ tally' = [ NoTally EXCEPT !.script = "approve_orchestrator_task" ]
    /\ runs' = runs + 1
    /\ UNCHANGED << needs_rebase, pass2, faults, work, verdicts, quarantine, agents, now, log, pc, issues, cursor,
                    counts, inflight, passes, ticks, transitions, outcome, tainted, quiet >>

(***************************************************************************)
(* The operator scripts on a provisional queue.                            *)
(***************************************************************************)
\* A task as it reached provisional, with or without a file path.
ProvisionalTask(id, role, queue, has_path) ==
    [ InitTask(id, queue, Some("w1"), Some(Stamp(StartTime - SecondsPerHour)), 0) EXCEPT
        !.role = role,
        !.file_path = IF has_path THEN PathOf("provisional", id) ELSE << >> ]

\* What the attempt of a task came back with, at depth 0 of its lineage.
Attempt(res) ==
    [ commits_count |-> res[1], turns_used |-> res[2], depth |-> 0, parent |-> None ]

\* Nothing of the reconciler, the workers or the clock has happened.
InitRest ==
    /\ agents = << >>
    /\ history = << >>
    /\ quarantine = << >>
    /\ now = StartTime
    /\ log = << >>
    /\ inflight = << >>
    /\ ticks = 0
    /\ transitions = 0
    /\ outcome = << >>
    /\ InitPass

\* The tasks of the queue: C3D4 with any result, with or without a file
\* path; G7H8 absent, burned out or with commits.
ProvisionalQueue ==
    \E res \in AttemptResults, has_path \in BOOLEAN,
          other \in { None, Some(<< Some(0), Some(40) >>), Some(<< Some(1), Some(40) >>) } :
          LET ids == {"C3D4"} \cup (IF IsSome(other) THEN {"G7H8"} ELSE {})
          IN  /\ tasks = [ i \in ids |->
                             ProvisionalTask(i, << "implement" >>, "provisional",
                                             i = "G7H8" \/ has_path) ]
              /\ work = [ i \in ids |->
                            IF i = "C3D4" THEN Attempt(res) ELSE Attempt(other[1]) ]
              /\ mirror = [ p \in { PathOf("provisional", i) : i \in ids } |->
                              OldFile(ContentMinimal) ]

\* The operator scripts start from such a queue; no call fails.
InitOperator ==
    /\ ProvisionalQueue
    /\ repo = NoRepo
    /\ faults = FALSE
    /\ verdicts = {}
    /\ tally = NoTally
    /\ runs = 0
    /\ needs_rebase = {}
    /\ pass2 = NoPass2
    /\ status = None
    /\ InitRest

NextOperator ==
    \/ AcceptAll
    \/ DiagnoseProvisional
    \/ DiagnoseIds
    \/ Rework

SpecOperator == InitOperator /\ [][NextOperator]_vars

\* The operator scripts over the same queue when a call of queue_utils may
\* raise.
InitAccept ==
    /\ ProvisionalQueue
    /\ repo = NoRepo
    /\ faults = TRUE
    /\ verdicts = {}
    /\ tally = NoTally
    /\ runs = 0
    /\ needs_rebase = {}
    /\ pass2 = NoPass2
    /\ status = None
    /\ InitRest

SpecAccept == InitAccept /\ [][NextOperator]_vars

(***************************************************************************)
(* Approvals of a task, run after run.                                     *)
(***************************************************************************)
\* E5F6 of the infra role or not, in provisional, in review_pending or still
\* claimed, with or without a file path; the worker's commits not published
\* yet, or everything published already; the acceptance always effective, or
\* able to raise or to leave the Store queue as it was.
InitApprove ==
    /\ \E role \in { InfraRole, << "implement" >> },
          queue \in { "provisional", "review_pending", "claimed" },
          has_path \in BOOLEAN, ids \in { {"E5F6"}, {"E5F6", "E5A1"} } :
          /\ tasks = [ i \in ids |->
                        IF i = "E5F6" THEN ProvisionalTask(i, role, queue, has_path)
                        ELSE ProvisionalTask(i, InfraRole, "provisional", TRUE) ]
          /\ mirror = [ p \in { PathOf("provisional", i) : i \in ids } |->
                         OldFile(ContentMinimal) ]
          /\ work = [ i \in ids |-> Attempt(<< Some(2), Some(30) >>) ]
    /\ repo \in { NoRepo, [ sub_pushed |-> TRUE, ref |-> "pushed" ] }
    /\ faults \in BOOLEAN
    /\ verdicts = {}
    /\ tally = NoTally
    /\ runs = 0
    /\ needs_rebase = {}
    /\ pass2 = NoPass2
    /\ status = None
    /\ InitRest

NextApprove ==
    \/ Approve
    \/ DiagnoseIds

SpecApprove == InitApprove /\ [][NextApprove]_vars

(***************************************************************************)
(* Marking a task for rebase (mark_for_rebase.py).                         *)
(***************************************************************************)
\* db.mark_for_rebase: sets the needs_rebase flag of the task and returns
\* its record; returns nothing when the task is not there or the write
\* fails.
mark_for_rebase(t, nr, task_id, db_ok) ==
    IF task_id \in DOMAIN t /\ db_ok
    THEN [ tasks |-> t, needs_rebase |-> nr \cup { task_id }, result |-> Some(t[task_id]) ]
    ELSE [ tasks |-> t, needs_rebase |-> nr, result |-> None ]

\* A script that marks whatever id it is given.
mark_for_rebase_main_unchecked(t, nr, argv, db_ok) ==
    IF argv = None
    THEN [ tasks |-> t, needs_rebase |-> nr, status |-> 1 ]
    ELSE [ tasks |-> t, needs_rebase |-> nr \cup { argv[1] }, status |-> 0 ]

\* main: argv holds the task id, if one was given.
mark_for_rebase_main(t, nr, argv, db_ok) ==
    IF argv = None
    THEN [ tasks |-> t, needs_rebase |-> nr, status |-> 1 ]
    ELSE LET task_id == argv[1]
         IN  IF task_id \notin DOMAIN t
             THEN [ tasks |-> t, needs_rebase |-> nr, status |-> 1 ]
             ELSE IF task_id \in nr
             THEN [ tasks |-> t, needs_rebase |-> nr, status |-> 0 ]
             ELSE LET r == mark_for_rebase(t, nr, task_id, db_ok)
                  IN  [ tasks |-> r.tasks, needs_rebase |-> r.needs_rebase,
                        status |-> IF IsSome(r.result) THEN 0 ELSE 1 ]

\* The command lines the script is run with: no argument, or an id.
RebaseArgs == { None } \cup { Some(id) : id \in Ids }

MarkForRebase ==
    /\ \E argv \in RebaseArgs, db_ok \in Outcomes(faults) :
          LET r == mark_for_rebase_main(tasks, needs_rebase, argv, db_ok)
          IN  /\ tasks' = r.tasks
              /\ needs_rebase' = r.needs_rebase
              /\ status' = Some(r.status)
    /\ UNCHANGED << faults, work, repo, verdicts, tally, runs, pass2, outcome, history, mirror,
                    quarantine, agents, now, log, pc, issues, cursor, counts, inflight,
                    passes, ticks, transitions, tainted, quiet >>

InitRebase ==
    /\ \E sc \in [Ids -> UNION { ConcScenarios(i) : i \in Ids }] :
          /\ \A i \in Ids : sc[i] \in ConcScenarios(i)
          /\ tasks = StoreOf(sc)
          /\ mirror = MirrorOf(sc)
    /\ agents = << >>
    /\ history = << >>
    /\ quarantine = << >>
    /\ now = StartTime
    /\ log = << >>
    /\ inflight = << >>
    /\ ticks = 0
    /\ transitions = 0
    /\ outcome = << >>
    /\ InitPass
    /\ faults \in BOOLEAN
    /\ work = << >>
    /\ repo = NoRepo
    /\ verdicts = {}
    /\ tally = NoTally
    /\ runs = 0
    /\ needs_rebase = {}
    /\ pass2 = NoPass2
    /\ status = None

NextRebase ==
    \/ MarkForRebase
    \/ ConcWorkerMove
    \/ WorkerCommit

SpecRebase == InitRebase /\ [][NextRebase]_vars

(***************************************************************************)
(* Properties.                                                             *)
(***************************************************************************)
\* The step taken is a turn of the loop over the mismatches (every turn logs).
IsFixMismatchStep == pc = "mismatches" /\ log' # log

\* The step taken is a turn of the loop over the orphans (every turn logs,
\* or ends the pass with an exception).
IsFixOrphanStep == pc = "orphans" /\ (log' # log \/ passes' # passes)

\* C1: file wins.  A fix of a reported mismatch whose Mirror file is still at
\* the reported path leaves the Store's queue of the task equal to the queue
\* directory that holds the file, and moves no Mirror file.
C1_FileWins ==
    [][ IsFixMismatchStep =>
          LET issue == issues.file_db_mismatches[cursor]
          IN  /\ mirror' = mirror
              /\ FileExists(mirror, issue.file_path) =>
                    /\ issue.task_id \in DOMAIN tasks'
                    /\ tasks'[issue.task_id].queue = issue.file_queue
                    /\ PathQueue(issue.file_path) = issue.file_queue
                    /\ FileExists(mirror', PathOf(tasks'[issue.task_id].queue,
                                                  issue.task_id)) ]_vars

\* C1 witness: a sync was logged for a task whose Store said one queue while
\* its file lay in another, and the Store now names the queue of the file.
C1_Witness ==
    \E i \in 1..Len(log) :
        /\ log[i].fix_type = "file-db-sync"
        /\ log[i].from # log[i].to
        /\ log[i].task_id \in DOMAIN tasks
        /\ tasks[log[i].task_id].queue = log[i].to
        /\ FileExists(mirror, PathOf(log[i].to, log[i].task_id))

\* The workers whose claim of the task succeeded.
Winners(id) ==
    { w \in Workers : << w, id >> \in DOMAIN outcome /\ outcome[<< w, id >>] }

\* The step taken is a claim attempt of worker w on task id.
IsClaimAttempt(w, id) ==
    << w, id >> \notin DOMAIN outcome /\ << w, id >> \in DOMAIN outcome'

\* C2: claims are linearizable.  Of the attempts on a task at most one
\* succeeds; an attempt on a task that is in incoming, unclaimed and not
\* blocked succeeds and claimed_by names its worker; every other attempt
\* fails and changes nothing in the Store.
C2_ClaimLinearizable ==
    /\ [](\A id \in Ids :
            /\ Cardinality(Winners(id)) <= 1
            /\ \A w \in Winners(id) :
                  tasks[id].queue = "claimed" => tasks[id].claimed_by = Some(w))
    /\ [][ \A w \in Workers, id \in Ids :
             IsClaimAttempt(w, id) =>
               IF tasks[id].queue = "incoming" /\ tasks[id].claimed_by = None
                  /\ BlockersDone(tasks, id)
               THEN /\ outcome'[<< w, id >>]
                    /\ tasks'[id].queue = "claimed"
                    /\ tasks'[id].claimed_by = Some(w)
                    /\ \A j \in Ids \ {id} : tasks'[j] = tasks[j]
               ELSE /\ ~outcome'[<< w, id >>]
                    /\ tasks' = tasks /\ history' = history /\ mirror' = mirror ]_vars

\* C2 witness: both workers tried the same task, one won and one lost.
C2_Witness ==
    \E id \in Ids :
        /\ \A w \in Workers : << w, id >> \in DOMAIN outcome
        /\ Cardinality(Winners(id)) = 1
        /\ \E w \in Winners(id) : tasks[id].claimed_by = Some(w)

\* C3: the auto-fixes are idempotent.  When two passes ran in a row, with no
\* worker step and no clock advance since the first one began, the second one
\* made no sync, registered no orphan and cleaned no stale error.
C3_Idempotent ==
    (pc = "idle" /\ quiet >= 2) =>
        /\ counts.file_db_syncs = 0
        /\ counts.orphans_registered = 0
        /\ counts.stale_errors_cleaned = 0

\* The Mirror files of a task that are at least the minimum age old.
OldPaths(id) ==
    { p \in DOMAIN mirror :
        PathId(p) = id /\ get_file_age_seconds(mirror, p, now) >= MIN_FILE_AGE_SECONDS }

\* C4: convergence.  When a pass has completed, with no transition in flight
\* and nothing else having happened since it began, every task that has a
\* Store record and a Mirror file of at least the minimum age has its Store
\* queue equal to the queue directory of the file.
C4_Convergence ==
    (pc = "idle" /\ quiet >= 1 /\ inflight = << >>) =>
        \A id \in DOMAIN tasks : \A p \in OldPaths(id) : tasks[id].queue = PathQueue(p)

\* The content has no line of the field with something after the separator.
FieldAbsent(content, field) ==
    \A i \in 1..Len(content.lines) :
        content.lines[i].k = field => Len(content.lines[i].v) = 0

\* The content has no title line.
NoTitleLine(content) == FieldAbsent(content, "title")

\* r is v without the blanks around it.
Trimmed(v, r) ==
    \E a \in 1..(Len(v) + 1), b \in 0..Len(v) :
        /\ r = SubSeq(v, a, b)
        /\ \A i \in 1..Len(v) : (i < a \/ i > b) => v[i] = " "
        /\ r # << >> => (r[1] # " " /\ r[Len(r)] # " ")

\* r is the trimmed value of the first line of the field that has a value.
FieldValueIs(content, field, r) ==
    \E i \in 1..Len(content.lines) :
        /\ content.lines[i].k = field /\ Len(content.lines[i].v) > 0
        /\ \A j \in 1..(i - 1) :
              content.lines[j].k = field => Len(content.lines[j].v) = 0
        /\ Trimmed(content.lines[i].v, r)

\* C5: an orphan file that cannot be parsed (no title line or no ROLE field)
\* is moved out of its queue directory into the quarantine area; the fix
\* creates no Store record for it and does not count it in orphans_registered.
C5_Quarantine ==
    [][ IsFixOrphanStep =>
          LET issue == issues.orphan_files[cursor]
              file == mirror[issue.file_path]
          IN  ( /\ FileExists(mirror, issue.file_path)
                /\ issue.task_id \notin DOMAIN tasks
                /\ NoTitleLine(file.content) \/ FieldAbsent(file.content, "ROLE") )
              => /\ ~FileExists(mirror', issue.file_path)
                 /\ issue.task_id \in DOMAIN quarantine'
                 /\ quarantine'[issue.task_id] = file
                 /\ tasks' = tasks
                 /\ counts'.orphans_registered = counts.orphans_registered ]_vars

\* C5 witness: a file lies in the quarantine area, its quarantine was logged,
\* it is in no queue directory and has no Store record.
C5_Witness ==
    \E id \in DOMAIN quarantine :
        /\ NoTitleLine(quarantine[id].content)
              \/ FieldAbsent(quarantine[id].content, "ROLE")
        /\ \E i \in 1..Len(log) : log[i].task_id = id /\ log[i].what = "quarantined"
        /\ \A q \in Queues : ~FileExists(mirror, PathOf(q, id))
        /\ id \notin DOMAIN tasks
        /\ counts.orphans_registered = 0

\* C6: an orphan file that parses is registered under the id of its file
\* name, with role, priority, branch and blockers equal to the values of its
\* ROLE, PRIORITY, BRANCH and BLOCKED_BY fields; without a PRIORITY or a
\* BRANCH the record gets priority P1 and branch main.
C6_Registered ==
    [][ IsFixOrphanStep =>
          LET issue == issues.orphan_files[cursor]
              c == mirror[issue.file_path].content
              id == PathId(issue.file_path)
          IN  ( /\ FileExists(mirror, issue.file_path)
                /\ issue.task_id \notin DOMAIN tasks
                /\ ~NoTitleLine(c) /\ ~FieldAbsent(c, "ROLE") )
              => /\ id \in DOMAIN tasks'
                 /\ DOMAIN tasks' = DOMAIN tasks \cup {id}
                 /\ FieldValueIs(c, "ROLE", tasks'[id].role)
                 /\ IF FieldAbsent(c, "PRIORITY")
                       THEN tasks'[id].priority = << "P1" >>
                       ELSE FieldValueIs(c, "PRIORITY", tasks'[id].priority)
                 /\ IF FieldAbsent(c, "BRANCH")
                       THEN tasks'[id].branch = << "main" >>
                       ELSE FieldValueIs(c, "BRANCH", tasks'[id].branch)
                 /\ IF FieldAbsent(c, "BLOCKED_BY")
                       THEN tasks'[id].blocked_by = None
                       ELSE /\ IsSome(tasks'[id].blocked_by)
                            /\ FieldValueIs(c, "BLOCKED_BY", tasks'[id].blocked_by[1])
                 /\ counts'.orphans_registered = counts.orphans_registered + 1 ]_vars

\* C6 witness: an orphan whose file names a role but no priority and no
\* branch was registered with that role, priority P1 and branch main.
C6_Witness ==
    \E i \in 1..Len(log) :
        /\ log[i].fix_type = "orphan-fix" /\ log[i].task_id \in DOMAIN tasks
        /\ \E p \in DOMAIN mirror :
              /\ PathId(p) = log[i].task_id
              /\ FieldAbsent(mirror[p].content, "PRIORITY")
              /\ FieldAbsent(mirror[p].content, "BRANCH")
              /\ FieldValueIs(mirror[p].content, "ROLE", tasks[log[i].task_id].role)
        /\ tasks[log[i].task_id].priority = << "P1" >>
        /\ tasks[log[i].task_id].branch = << "main" >>

\* The fields of the Store record of a task that a reclaim would change.
ClaimFields(t, id) ==
    IF id \in DOMAIN t
    THEN << t[id].queue, t[id].claimed_by, t[id].claimed_at >>
    ELSE << >>

\* The step taken is the zombie escalation that ends a pass.
IsEscalateStep == pc = "escalate" /\ pc' = "idle"

\* The step taken is a step of the pass after its diagnostics.
IsFixStep == pc # "idle" /\ (pc' # pc \/ cursor' # cursor \/ log' # log)

IsDetectStep == pc = "idle" /\ pc' # "idle"

\* The task is reported as a zombie claim in the issues.
ReportedZombie(iss, id) ==
    \E i \in 1..Len(iss.zombie_claims) : iss.zombie_claims[i].task_id = id

\* The task has been in the claimed queue for the claim-age threshold.
ClaimedLongEnough(id) ==
    /\ id \in DOMAIN tasks
    /\ tasks[id].queue = "claimed"
    /\ IsSome(tasks[id].claimed_by)
    /\ IsSome(tasks[id].claimed_at)
    /\ tasks[id].claimed_at[1].ok
    /\ now - tasks[id].claimed_at[1].t >= ZOMBIE_CLAIM_HOURS * SecondsPerHour

\* The worker has no liveness record.
NoLivenessRecord(w) == w \notin DOMAIN agents

\* The worker has a last-activity timestamp as old as the inactivity threshold.
LastActivityOld(w) ==
    /\ w \in DOMAIN agents
    /\ IsSome(agents[w].last_finished)
    /\ agents[w].last_finished[1].ok
    /\ now - agents[w].last_finished[1].t >= AGENT_INACTIVE_HOURS * SecondsPerHour

\* C8: the diagnostics report a task as a zombie claim if and only if it has
\* been in the claimed queue for the claim-age threshold and its owning worker
\* either has no liveness record or has a last-activity timestamp as old as
\* the inactivity threshold.
C8_ZombieIff ==
    [][ IsDetectStep =>
          \A id \in Ids :
              ReportedZombie(issues', id) <=>
                  /\ ClaimedLongEnough(id)
                  /\ \/ NoLivenessRecord(tasks[id].claimed_by[1])
                     \/ LastActivityOld(tasks[id].claimed_by[1]) ]_vars

\* The age of the Mirror file at the path is below the minimum.
Young(p) == get_file_age_seconds(mirror, p, now) < MIN_FILE_AGE_SECONDS

\* The path is named by a mismatch or an orphan of the issues.
ReportedPath(iss, p) ==
    \/ \E i \in 1..Len(iss.file_db_mismatches) : iss.file_db_mismatches[i].file_path = p
    \/ \E i \in 1..Len(iss.orphan_files) : iss.orphan_files[i].file_path = p

\* The task is named by a mismatch or an orphan of the issues, for a file
\* that was at least the minimum age old.
ReportedOldFile(iss, id) ==
    \/ \E i \in 1..Len(iss.file_db_mismatches) :
          /\ iss.file_db_mismatches[i].task_id = id
          /\ iss.file_db_mismatches[i].age_seconds >= MIN_FILE_AGE_SECONDS
    \/ \E i \in 1..Len(iss.orphan_files) :
          /\ iss.orphan_files[i].task_id = id
          /\ iss.orphan_files[i].age_seconds >= MIN_FILE_AGE_SECONDS

\* The Store record of the task, or the lack of one.
RecordOf(t, id) == IF id \in DOMAIN t THEN Some(t[id]) ELSE None

\* C9: the diagnostics report no Mirror file younger than the minimum age as
\* an orphan or as a mismatch, and a step of the pass creates or changes the
\* Store record only of a task reported for a file of at least that age.
C9_YoungFilesIgnored ==
    /\ [][ IsDetectStep =>
             \A p \in DOMAIN mirror :
                 /\ Young(p) => ~ReportedPath(issues', p)
                 /\ ReportedPath(issues', p) =>
                       now - mirror[p].mtime >= MIN_FILE_AGE_SECONDS ]_vars
    /\ [][ IsFixStep =>
             \A id \in Ids :
                 RecordOf(tasks', id) # RecordOf(tasks, id) =>
                     ReportedOldFile(issues, id) ]_vars

\* C9 witness: the diagnostics have run over a young file that has no Store
\* record and a young file that lies in another directory than the Store
\* says, and reported neither.
C9_Witness ==
    /\ pc \in {"mismatches", "orphans", "stale"} /\ cursor = 1
    /\ issues.timestamp = now
    /\ \E p \in DOMAIN mirror :
          Young(p) /\ PathId(p) \notin DOMAIN tasks /\ ~ReportedPath(issues, p)
    /\ \E p \in DOMAIN mirror :
          /\ Young(p) /\ PathId(p) \in DOMAIN tasks
          /\ tasks[PathId(p)].queue # PathQueue(p)
          /\ ~ReportedPath(issues, p)

\* C10 as stated: the diagnostics report no task as a zombie claim whose
\* Mirror file is younger than the minimum age.
C10_ZombieSkipsYoungFile ==
    [][ IsDetectStep =>
          \A id \in Ids :
              ReportedZombie(issues', id) =>
                  \A p \in DOMAIN mirror : PathId(p) = id => ~Young(p) ]_vars

\* C10: the zombie check excludes a task by the age of its claim, not by the
\* age of its Mirror file: a task claimed for less than the claim-age
\* threshold is never reported, and a task claimed for that long by a worker
\* without a liveness record is reported whatever the age of its file.
C10_ZombieByClaimAge ==
    [][ IsDetectStep =>
          \A id \in Ids :
              /\ ReportedZombie(issues', id) => ClaimedLongEnough(id)
              /\ ( ClaimedLongEnough(id)
                   /\ NoLivenessRecord(tasks[id].claimed_by[1]) )
                 => ReportedZombie(issues', id) ]_vars

\* C10 witness: the diagnostics have just reported a zombie claim for a task
\* whose Mirror file is younger than the minimum age.
C10_Witness ==
    /\ pc \in {"mismatches", "orphans", "stale"} /\ cursor = 1
    /\ issues.timestamp = now
    /\ \E id \in Ids :
          /\ ReportedZombie(issues, id)
          /\ \E p \in DOMAIN mirror : PathId(p) = id /\ Young(p)

\* The step taken is a run of a script that processes the provisional queue:
\* accept_all, or diagnose_provisional with --recycle.
IsProcessingRun ==
    /\ runs' = runs + 1
    /\ tally'.script \in {"accept_all", "diagnose_provisional --recycle"}

\* The task is in provisional with a file path.
Processable(id) ==
    /\ id \in DOMAIN tasks
    /\ tasks[id].queue = "provisional"
    /\ tasks[id].file_path # << >>

\* The commits and the turns the Store holds for the task, none counting as 0.
CommitsOf(id) == IF work[id].commits_count = None THEN 0 ELSE work[id].commits_count[1]
TurnsOf(id) == IF work[id].turns_used = None THEN 0 ELSE work[id].turns_used[1]

\* The task is burned out by the policy: no commit and more turns than the
\* ceiling.
BurnedOut(id) == CommitsOf(id) = 0 /\ TurnsOf(id) > BURNED_OUT_TURN_THRESHOLD

\* The breakdown tasks created from the task.
ChildrenOf(w, id) == { c \in DOMAIN w : w[c].parent = Some(id) }

\* C11: the burnout classification is a function of the commits and the
\* turns (the ceiling being fixed): no commit and more turns than the ceiling
\* is burned out, one commit or more is never burned out, and two
\* classifications of the same inputs agree.
C11_BurnoutPure ==
    /\ \A v \in verdicts :
          /\ (v.commits_count = 0 /\ v.turns_used > BURNED_OUT_TURN_THRESHOLD) => v.burned
          /\ v.commits_count >= 1 => ~v.burned
    /\ \A v1, v2 \in verdicts :
          (v1.commits_count = v2.commits_count /\ v1.turns_used = v2.turns_used)
              => v1.burned = v2.burned

\* C11 witness: a task without a commit and over the ceiling was classified
\* burned out, and a task with a commit and as many turns was not.
C11_Witness ==
    /\ \E v \in verdicts : v.commits_count = 0 /\ v.turns_used = 40 /\ v.burned
    /\ \E v \in verdicts : v.commits_count = 1 /\ v.turns_used = 40 /\ ~v.burned

\* C12: a run that processes the provisional queue moves every provisional
\* task that has a commit and a file path to done, whatever its turns, and
\* does not recycle it.
C12_CommitsAccepted ==
    [][ IsProcessingRun =>
          \A id \in DOMAIN tasks :
              (Processable(id) /\ CommitsOf(id) >= 1) =>
                  /\ tasks'[id].queue = "done"
                  /\ FileExists(mirror', PathOf("done", id))
                  /\ ChildrenOf(work', id) = {} ]_vars

\* C12 witness: a task with one commit and 40 turns, twice the ceiling, has
\* been accepted by a run, and has no breakdown task.
C12_Witness ==
    \E id \in DOMAIN tasks :
        /\ CommitsOf(id) = 1 /\ TurnsOf(id) = 40
        /\ tasks[id].queue = "done"
        /\ tally.accepted >= 1
        /\ ChildrenOf(work, id) = {}

\* C13: a run that processes the provisional queue moves a burned-out task to
\* done only at the depth cap; below the cap the task goes to recycled and a
\* breakdown task is created from it.
C13_BurnedOutRecycled ==
    [][ IsProcessingRun =>
          \A id \in DOMAIN tasks :
              (Processable(id) /\ BurnedOut(id)) =>
                  /\ tasks'[id].queue = "done" => work[id].depth >= MaxRecycleDepth
                  /\ work[id].depth < MaxRecycleDepth =>
                        /\ tasks'[id].queue = "recycled"
                        /\ \E c \in ChildrenOf(work', id) : tasks'[c].queue = "breakdown" ]_vars

\* C13 witness: a task without a commit and with 40 turns lies in recycled,
\* and the breakdown task created from it exists.
C13_Witness ==
    \E id \in DOMAIN tasks :
        /\ CommitsOf(id) = 0 /\ TurnsOf(id) = 40
        /\ tasks[id].queue = "recycled"
        /\ FileExists(mirror, PathOf("recycled", id))
        /\ tally.recycled >= 1
        /\ ChildrenOf(work, id) # {}

\* The ancestors of a task in its lineage: each of them was recycled once.
RECURSIVE AncestorsOf(_, _)
AncestorsOf(w, id) ==
    IF w[id].parent = None THEN {}
    ELSE {w[id].parent[1]} \cup AncestorsOf(w, w[id].parent[1])

\* C14: recycling is bounded by the depth cap.  No lineage has more recycled
\* tasks than the cap, and a run that meets a burned-out task with as many
\* ancestors as the cap accepts it into done (validator manual-accept)
\* and creates no further task.
C14_DepthBounded ==
    /\ [](\A id \in DOMAIN work :
             /\ Cardinality(AncestorsOf(work, id)) <= MaxRecycleDepth
             /\ tasks[id].queue = "recycled" =>
                   Cardinality(AncestorsOf(work, id)) < MaxRecycleDepth)
    /\ [][ IsProcessingRun =>
             \A id \in DOMAIN tasks :
                 ( /\ Processable(id) /\ BurnedOut(id)
                   /\ Cardinality(AncestorsOf(work, id)) = MaxRecycleDepth )
                 => /\ tasks'[id].queue = "done"
                    /\ ChildrenOf(work', id) = {}
                    /\ \E i \in (Len(history) + 1)..Len(history') :
                          /\ history'[i].task_id = id
                          /\ history'[i].to = "done"
                          /\ history'[i].actor = "manual-accept" ]_vars

\* C14 witness: a lineage that burned out at every depth: as many recycled
\* ancestors as the cap, and the last task, burned out as well, in done.
C14_Witness ==
    \E id \in DOMAIN tasks :
        /\ Cardinality(AncestorsOf(work, id)) = MaxRecycleDepth
        /\ \A a \in AncestorsOf(work, id) : tasks[a].queue = "recycled"
        /\ BurnedOut(id)
        /\ tasks[id].queue = "done"

\* The step taken is a run of approve_orchestrator_task.
IsApproveRun ==
    /\ runs' = runs + 1
    /\ tally'.script = "approve_orchestrator_task"

\* Everything the approval has to publish is published: the worker's commits
\* on the shared branch, the commit of the submodule ref on the remote main.
Published(rp) == rp.sub_pushed /\ rp.ref = "pushed"

\* C15: approval of an infra task is all-or-nothing.  Whatever runs came
\* before, a run of approve_orchestrator_task makes the Store queue of a task
\* done only if, after it, the worker's commits are on the shared branch and
\* the commit of the submodule ref is on the remote main; a run that leaves
\* something unpublished leaves the queue of the task as it was.
C15_ApprovalAllOrNothing ==
    [][ IsApproveRun =>
          \A id \in DOMAIN tasks :
              /\ (tasks[id].queue # "done" /\ tasks'[id].queue = "done") => Published(repo')
              /\ ~Published(repo') => tasks'[id].queue = tasks[id].queue ]_vars

\* The events the step appended to the history for task id.
NewEvents(id) ==
    { i \in (Len(history) + 1)..Len(history') : history'[i].task_id = id }

\* The history is append-only over the step.
HistoryKept ==
    /\ Len(history') >= Len(history)
    /\ SubSeq(history', 1, Len(history)) = history

\* C16: every change of a task's Store queue appends exactly one
\* TaskHistoryEvent for that task and updates updated_at, by whatever path
\* the queue was changed (the reconciler's sync, the acceptance of
\* approve_orchestrator_task, its repair of the Store after the acceptance).
C16_QueueChangeRecorded ==
    [][ \A id \in (DOMAIN tasks) \cap (DOMAIN tasks') :
            tasks'[id].queue # tasks[id].queue =>
                /\ HistoryKept
                /\ Cardinality(NewEvents(id)) = 1
                /\ tasks'[id].updated_at = now ]_vars

\* The entries of the given type the step appended to the log for task id.
NewEntries(fix_type, id) ==
    { i \in (Len(log) + 1)..Len(log') :
        log'[i].fix_type = fix_type /\ log'[i].task_id = id }

\* The step is the stale-error cleanup.
IsStaleStep == pc = "stale" /\ pc' = "escalate"

\* C17: every fix attempt that does not succeed appends at least one
\* escalate entry naming the task: a mismatch sync that is not counted, an
\* orphan that is not registered (quarantined or not), a stale-error cleanup
\* of a file with an annotation that is not logged as cleaned.
C17_FailedFixEscalates ==
    [][ /\ IsFixMismatchStep =>
              LET id == issues.file_db_mismatches[cursor].task_id
              IN  counts'.file_db_syncs = counts.file_db_syncs =>
                      NewEntries("escalate", id) # {}
        /\ IsFixOrphanStep =>
              LET id == issues.orphan_files[cursor].task_id
              IN  counts'.orphans_registered = counts.orphans_registered =>
                      NewEntries("escalate", id) # {}
        /\ IsStaleStep =>
              \A id \in DOMAIN tasks :
                  (StaleHit(tasks, mirror, id) /\ NewEntries("stale-error", id) = {}) =>
                      NewEntries("escalate", id) # {} ]_vars

\* The entries of the given type the step appended to the log.
NewOfType(fix_type) ==
    { i \in (Len(log) + 1)..Len(log') : log'[i].fix_type = fix_type }

\* C18: every successful auto-fix is logged individually.  A mismatch sync
\* that is counted appends exactly one file-db-sync entry, which names the
\* task, the Store queue before the fix and the queue after it; an orphan
\* registration that is counted appends exactly one orphan-fix entry naming
\* the task; and a count grows exactly by the entries of its type.
C18_FixesLogged ==
    [][ /\ IsFixMismatchStep =>
              LET id == issues.file_db_mismatches[cursor].task_id
              IN  /\ counts'.file_db_syncs - counts.file_db_syncs
                        = Cardinality(NewOfType("file-db-sync"))
                  /\ counts'.file_db_syncs = counts.file_db_syncs + 1 =>
                        /\ Cardinality(NewEntries("file-db-sync", id)) = 1
                        /\ \A i \in NewEntries("file-db-sync", id) :
                              /\ log'[i].from = tasks[id].queue
                              /\ log'[i].to = tasks'[id].queue
        /\ IsFixOrphanStep =>
              LET id == issues.orphan_files[cursor].task_id
              IN  /\ counts'.orphans_registered - counts.orphans_registered
                        = Cardinality(NewOfType("orphan-fix"))
                  /\ counts'.orphans_registered = counts.orphans_registered + 1 =>
                        Cardinality(NewEntries("orphan-fix", id)) = 1
        /\ ~(IsFixMismatchStep \/ IsFixOrphanStep) =>
              /\ NewOfType("file-db-sync") = {}
              /\ NewOfType("orphan-fix") = {} ]_vars

\* The text holds a failure annotation: a line "## FAILED_AT: <timestamp>".
HasAnnotation(content) ==
    \E i \in 1..Len(content.lines) : content.lines[i].k = "failed"

\* The Mirror file of a retried task, in the directory of its Store queue.
RetriedFile(t, m, id) ==
    /\ IsRetried(t, id)
    /\ FileExists(m, PathOf(t[id].queue, id))

\* C19: after the stale-error cleanup no Mirror file of a retried task in
\* incoming or claimed (the file lying in that queue's directory) holds a
\* FAILED_AT annotation, and the tasks counted as cleaned are exactly as many
\* as the entries logged, each for a file from which an annotation was
\* actually removed.
C19_StaleErrorsCleaned ==
    [][ IsStaleStep =>
          /\ \A id \in DOMAIN tasks' :
                RetriedFile(tasks', mirror', id) =>
                    ~HasAnnotation(mirror'[PathOf(tasks'[id].queue, id)].content)
          /\ counts'.stale_errors_cleaned = Cardinality(NewOfType("stale-error"))
          /\ \A id \in DOMAIN tasks :
                NewEntries("stale-error", id) # {} =>
                    /\ RetriedFile(tasks, mirror, id)
                    /\ HasAnnotation(mirror[PathOf(tasks[id].queue, id)].content)
                    /\ mirror'[PathOf(tasks[id].queue, id)].content
                          # mirror[PathOf(tasks[id].queue, id)].content ]_vars

\* The Mirror files the stale-error cleanup may rewrite: the file of a task
\* with attempt_count > 0 and Store queue incoming or claimed, in the
\* directory of that queue.
Cleanable(p) ==
    /\ PathId(p) \in DOMAIN tasks
    /\ tasks[PathId(p)].attempt_count > 0
    /\ tasks[PathId(p)].queue \in {"incoming", "claimed"}
    /\ PathQueue(p) = tasks[PathId(p)].queue

\* C20: the stale-error cleanup changes no Store data (the records, with
\* attempt_count and queue, and the history are the same before and after),
\* it creates and removes no Mirror file, and it leaves alone the files of
\* tasks with attempt_count = 0 or in queues other than incoming and claimed.
C20_StaleCleanupFrame ==
    [][ IsStaleStep =>
          /\ tasks' = tasks
          /\ history' = history
          /\ DOMAIN mirror' = DOMAIN mirror
          /\ \A p \in DOMAIN mirror : ~Cleanable(p) => mirror'[p] = mirror[p] ]_vars

\* C20 witness: a cleanup has removed an annotation from the file of a
\* retried task, while the file of a task that was never retried, or of a
\* task in another queue, still holds its annotation.
C20_Witness ==
    /\ pc = "escalate"
    /\ counts.stale_errors_cleaned >= 1
    /\ \E p \in DOMAIN mirror :
          /\ ~Cleanable(p)
          /\ PathId(p) \in DOMAIN tasks
          /\ HasAnnotation(mirror[p].content)

\* The step ends a run of diagnose_queue_health (a pass with --fix, ended
\* by its return or by an exception, or a dry run).
IsPassEnd == passes' = passes + 1

\* Something is unresolved in the state: the diagnostics would report an
\* issue, or a file lies in the quarantine area.
Unresolved(t, m, a, q, clock) ==
    \/ has_issues(run_diagnostics(t, m, a, clock, CHOOSE o \in Orders : TRUE))
    \/ q # << >>

\* C21: a run of the diagnostics, as a dry run or with --fix, ends with a
\* non-zero status when unresolved issues remain at its end, and with status
\* zero only when none remain.
C21_StatusReflectsIssues ==
    [][ IsPassEnd =>
          (status' = Some(0) <=> ~Unresolved(tasks', mirror', agents', quarantine', now')) ]_vars

\* The terminal queues of the state machine.
TerminalQueues == { "done", "failed", "escalated" }

\* C22: terminal queues are permanent resting states.  No step of a
\* reconciliation pass changes the Store queue of a task that is in done,
\* failed or escalated.
C22_TerminalPermanent ==
    [][ IsFixStep =>
          \A id \in DOMAIN tasks :
              tasks[id].queue \in TerminalQueues =>
                  /\ id \in DOMAIN tasks'
                  /\ tasks'[id].queue = tasks[id].queue ]_vars

\* C23: the transition claimed -> incoming is never made by a reconciliation
\* pass.  No step of a pass changes the Store queue of a task from claimed
\* to incoming.
C23_NoSilentReclaim ==
    [][ IsFixStep =>
          \A id \in DOMAIN tasks :
              ~(/\ tasks[id].queue = "claimed"
                /\ id \in DOMAIN tasks'
                /\ tasks'[id].queue = "incoming") ]_vars

\* The tasks that a step puts into the done queue of the Store.
EntersDone(id) ==
    /\ id \in DOMAIN tasks'
    /\ tasks'[id].queue = "done"
    /\ (id \in DOMAIN tasks => tasks[id].queue # "done")

\* C24: whichever operation puts a task into the done queue of the Store
\* (acceptance, approval of an infra task, force-accept at the depth cap, or
\* the reconciler's sync of a task whose file lies in done/), the task has
\* no claimed_by afterwards.
C24_DoneIsUnclaimed ==
    [][ \A id \in DOMAIN tasks' : EntersDone(id) => tasks'[id].claimed_by = None ]_vars

\* A step that is a whole dry run: the script starts between two passes and
\* ends in the same step.
IsDryRun == pc = "idle" /\ pc' = "idle" /\ passes' = passes + 1

\* C25: a diagnostics pass without --fix changes nothing.  Store records,
\* history, Mirror files, the quarantine area and the action log are the
\* same before and after, whatever the pass reports.
C25_DryRunChangesNothing ==
    [][ IsDryRun =>
          /\ tasks' = tasks
          /\ history' = history
          /\ mirror' = mirror
          /\ quarantine' = quarantine
          /\ log' = log ]_vars

\* A dry run has ended with status 1 and a reported mismatch, which a pass
\* with --fix would have synced and logged, and nothing has been logged.
C25_Witness ==
    /\ pc = "idle"
    /\ status = Some(1)
    /\ issues.file_db_mismatches # << >>
    /\ log = << >>
    /\ passes > 0

\* A step that ends a pass with --fix.
IsFixPassEnd == pc # "idle" /\ pc' = "idle"

\* The pass has gone through every detected issue: no detected orphan is
\* left behind the one in hand, and every zombie claim it detected has its
\* entry in the log.
ProcessedAll ==
    /\ pc = "orphans" => cursor = Len(issues.orphan_files)
    /\ \A i \in DOMAIN issues.zombie_claims :
          \E k \in DOMAIN log' :
              /\ log'[k].fix_type = "escalate"
              /\ log'[k].task_id = issues.zombie_claims[i].task_id

\* No orphan that a detection reports is a file of the quarantine area.
NoQuarantinedDetected ==
    \A i \in DOMAIN issues'.orphan_files :
        /\ issues'.orphan_files[i].file_path \in DOMAIN mirror
        /\ issues'.orphan_files[i].task_id \notin DOMAIN quarantine

\* C26: the pass makes forward progress.  A pass ends only after every issue
\* it detected has been processed, also when a fix of one issue has failed,
\* and no later detection reports an orphan that was quarantined.
C26_ForwardProgress ==
    [][ /\ IsFixPassEnd => ProcessedAll
        /\ issues' # issues => NoQuarantinedDetected ]_vars

\* The tasks named in the blocked_by field of a task.
Blockers(t, id) ==
    IF ~IsSome(t[id].blocked_by) THEN {}
    ELSE { t[id].blocked_by[1][k] : k \in DOMAIN t[id].blocked_by[1] } \ { " ", "," }

\* Every blocker of the task is in done.
AllBlockersIn(t, id) ==
    \A b \in Blockers(t, id) : b \in DOMAIN t /\ t[b].queue = "done"

IsRecycled(id) ==
    /\ id \in DOMAIN tasks
    /\ tasks[id].queue # "recycled"
    /\ tasks'[id].queue = "recycled"

\* The breakdown tasks a step creates from the task: records under ids the
\* Store did not hold, linked to the task by the provenance note.
NewBreakdownsOf(id) ==
    { c \in DOMAIN tasks' \ DOMAIN tasks :
        /\ tasks'[c].queue = "breakdown"
        /\ work'[c].parent = Some(id) }

\* C28: recycling moves the original task to recycled and creates one new
\* breakdown task under an id that differs from the original's and from
\* every id the Store holds; no record of the Store is replaced, and the new
\* task does not list the original in blocked_by.
C28_RecycleCreatesNewTask ==
    [][ /\ \A j \in DOMAIN tasks :
              /\ j \in DOMAIN tasks'
              /\ tasks'[j].role = tasks[j].role
              /\ work'[j].parent = work[j].parent
        /\ \A id \in DOMAIN tasks : IsRecycled(id) =>
              /\ Cardinality(NewBreakdownsOf(id)) = 1
              /\ \A c \in NewBreakdownsOf(id) :
                    /\ c # id
                    /\ id \notin Blockers(tasks', c)
                    /\ Blockers(tasks', c) = {} ]_vars

\* A task was recycled, its breakdown task was recycled in turn, and the
\* three records of the lineage have three ids.
C28_Witness ==
    \E a \in DOMAIN tasks, b \in DOMAIN tasks, c \in DOMAIN tasks :
        /\ tasks[a].queue = "recycled"
        /\ tasks[b].queue = "recycled"
        /\ work[b].parent = Some(a)
        /\ work[c].parent = Some(b)
        /\ Cardinality({ a, b, c }) = 3

\* A step of mark_for_rebase.py: no other step of its specification touches
\* the flag or the exit status.
IsMarkStep == needs_rebase' # needs_rebase \/ status' # status

\* C29: marking a task for rebase is idempotent and safe on error.  A run
\* that exits 0 for a task of the Store leaves its flag set and its queue
\* as it was; a run on a task already marked changes nothing and exits 0; a
\* run on an id the Store does not hold exits non-zero and changes nothing;
\* and no run changes a queue, the history, the Mirror or another flag.
C29_MarkForRebaseSafe ==
    /\ [](\A id \in Ids, db_ok \in Outcomes(faults) :
            LET r == mark_for_rebase_main(tasks, needs_rebase, Some(id), db_ok)
                again == mark_for_rebase_main(r.tasks, r.needs_rebase, Some(id), db_ok)
            IN  /\ r.tasks = tasks
                /\ id \notin DOMAIN tasks =>
                      r.status # 0 /\ r.needs_rebase = needs_rebase
                /\ (id \in DOMAIN tasks /\ id \in needs_rebase) =>
                      r.status = 0 /\ r.needs_rebase = needs_rebase
                /\ (id \in DOMAIN tasks /\ id \notin needs_rebase /\ db_ok) =>
                      r.status = 0 /\ r.needs_rebase = needs_rebase \cup { id }
                /\ r.status # 0 => r.needs_rebase = needs_rebase
                /\ r.status = 0 =>
                      /\ again.status = 0
                      /\ again.needs_rebase = r.needs_rebase
                      /\ again.tasks = r.tasks)
    /\ [][ IsMarkStep =>
             /\ tasks' = tasks /\ history' = history /\ mirror' = mirror /\ log' = log
             /\ needs_rebase \subseteq needs_rebase'
             /\ needs_rebase' \subseteq DOMAIN tasks
             /\ Cardinality(needs_rebase' \ needs_rebase) <= 1
             /\ needs_rebase' # needs_rebase => status' = Some(0) ]_vars

\* A task that a worker has claimed was marked, and a later run on an id that
\* the Store does not hold has exited with status 1.
C29_Witness ==
    /\ "A1B2" \in needs_rebase
    /\ "A1B2" \in DOMAIN tasks
    /\ tasks["A1B2"].queue = "claimed"
    /\ "ZZZZ" \notin DOMAIN tasks
    /\ status = Some(1)

\* The tasks whose id begins with the characters given.
PrefixMatches(t, prefix) ==
    { id \in DOMAIN t :
        /\ Len(prefix) <= Len(IdChars(id))
        /\ SubSeq(IdChars(id), 1, Len(prefix)) = prefix }

\* The run is to be rejected: the prefix is the beginning of no id or of
\* several, or the one task it names has another role than the infra role,
\* or lies in another queue than provisional and review_pending.
ToBeRejected(t, prefix) ==
    \/ Cardinality(PrefixMatches(t, prefix)) # 1
    \/ \E id \in PrefixMatches(t, prefix) :
          \/ t[id].role # InfraRole
          \/ t[id].queue \notin { "provisional", "review_pending" }

\* Runs with the command lines given, whatever the git commands would do,
\* are rejected without effect when they are to be rejected.
RejectsWithoutEffect(args) ==
    \A argv \in args \ { None }, git \in GitInputs, fate \in Fates(faults) :
        LET st == ScriptState(tasks, history, mirror, work)
            r == approve_main(st, repo, argv, git, fate, now)
        IN  ToBeRejected(tasks, argv[1]) =>
                /\ r.st = st
                /\ r.repo = repo
                /\ r.status = 1

\* C30: approve_orchestrator_task rejects without any effect (no push, no
\* commit, no change of the Store, exit status 1) when the id prefix matches
\* no task or more than one, when the task has not the infra role, or when
\* its queue is neither provisional nor review_pending.
C30_RejectsWithoutEffect == RejectsWithoutEffect(ApproveArgs)

\* The Mirror files of a task across the queue directories.
FilesOf(m, id) == { path \in DOMAIN m : PathId(path) = id }

\* C31: the reconciler preserves the one-file-per-task invariant.  No step of
\* a pass puts a file at a path of the Mirror where none was; the only file
\* that leaves its path is that of an unparseable orphan, which goes into the
\* quarantine area; so every task with a Store record has the same files in
\* the same queue directories after the step.
C31_OneFilePerTask ==
    [][ IsFixStep =>
          /\ DOMAIN mirror' \subseteq DOMAIN mirror
          /\ \A path \in DOMAIN mirror \ DOMAIN mirror' :
                /\ PathId(path) \notin DOMAIN tasks'
                /\ ~IsSome(parse_task_metadata(mirror[path].content))
                /\ PathId(path) \in DOMAIN quarantine'
                /\ quarantine'[PathId(path)] = mirror[path]
          /\ \A id \in DOMAIN tasks' :
                /\ FilesOf(mirror', id) = FilesOf(mirror, id)
                /\ Cardinality(FilesOf(mirror', id)) = Cardinality(FilesOf(mirror, id)) ]_vars

\* A pass has ended that synced a mismatch, and an unparseable orphan lies in
\* the quarantine area, while a task of the Store has its one file.
C31_Witness ==
    /\ pc = "idle"
    /\ passes > 0
    /\ quarantine # << >>
    /\ \E id \in DOMAIN tasks : Cardinality(FilesOf(mirror, id)) = 1
    /\ \E k \in DOMAIN log : log[k].fix_type = "file-db-sync"

\* The issue the fix of a mismatch, or of an orphan, is given.
MismatchInHand == issues.file_db_mismatches[cursor]
OrphanInHand == issues.orphan_files[cursor]

\* The step appends one escalate entry for the task and nothing else.
EscalatedOnly(id) ==
    /\ Len(log') = Len(log) + 1
    /\ SubSeq(log', 1, Len(log)) = log
    /\ log'[Len(log')].fix_type = "escalate"
    /\ log'[Len(log')].task_id = id

\* C32: when the file of a reported mismatch or orphan is no longer at the
\* reported path as its fix runs, the fix changes nothing in the Store (no
\* queue update, no record created, no history event) and nothing in the
\* Mirror, appends an escalate entry, and is not counted as a fix.
C32_VanishedFileEscalates ==
    /\ [][ (IsFixMismatchStep /\ MismatchInHand.file_path \notin DOMAIN mirror) =>
              /\ tasks' = tasks /\ history' = history /\ mirror' = mirror
              /\ EscalatedOnly(MismatchInHand.task_id)
              /\ counts' = counts ]_vars
    /\ [][ (IsFixOrphanStep /\ OrphanInHand.file_path \notin DOMAIN mirror) =>
              /\ tasks' = tasks /\ history' = history /\ mirror' = mirror
              /\ quarantine' = quarantine
              /\ EscalatedOnly(OrphanInHand.task_id)
              /\ counts' = counts ]_vars

\* A pass has ended in which the file of a mismatch and the file of an
\* orphan had gone: two escalations of that kind, no fix counted.
C32_Witness ==
    /\ pc = "idle"
    /\ passes > 0
    /\ \E i \in DOMAIN log, j \in DOMAIN log :
          /\ log[i].what = "file disappeared" /\ log[j].what = "file disappeared"
          /\ log[i].task_id \in DOMAIN tasks
          /\ log[j].task_id \notin DOMAIN tasks
    /\ counts.file_db_syncs = 0
    /\ counts.orphans_registered = 0

\* Whether line i of a text belongs to a failure annotation section: the
\* section begins at a "## FAILED_AT:" line (not the first line of the text)
\* and runs up to, not including, the next "##" heading or the end.
RECURSIVE InAnnotation(_, _)
InAnnotation(lines, i) ==
    IF i <= 1 THEN FALSE
    ELSE CASE lines[i].k = "failed" -> TRUE
           [] lines[i].k = "h2"     -> FALSE
           [] OTHER                 -> InAnnotation(lines, i - 1)

\* The lines outside the annotation sections, from line i on, in their order.
RECURSIVE OtherLines(_, _)
OtherLines(lines, i) ==
    IF i > Len(lines) THEN << >>
    ELSE IF InAnnotation(lines, i) THEN OtherLines(lines, i + 1)
    ELSE << lines[i] >> \o OtherLines(lines, i + 1)

\* The files a cleanup step rewrites for a reason: files of retried tasks, in
\* the directory of their queue, that hold an annotation section.
Annotated(path) ==
    /\ Cleanable(path)
    /\ \E i \in DOMAIN mirror[path].content.lines :
          InAnnotation(mirror[path].content.lines, i)

\* C33, as stated: the cleanup removes exactly the annotation sections, and
\* every other part of the file, the line break that ends its last line
\* included, is as it was and in the same order.
C33_ExactlySectionsRemoved ==
    [][ IsStaleStep =>
          \A path \in DOMAIN mirror :
              Annotated(path) =>
                  /\ mirror'[path].content.lines =
                        OtherLines(mirror[path].content.lines, 1)
                  /\ mirror'[path].content.eofnl = mirror[path].content.eofnl ]_vars

\* A run of accept_all has just ended.
IsAcceptAllStep == runs' = runs + 1 /\ tally'.script = "accept_all"

\* The provisional tasks that have a file path.
WithFilePath ==
    { id \in DOMAIN tasks : tasks[id].queue = "provisional" /\ tasks[id].file_path # << >> }

C35_EscalatedStillClaimed ==
    [][ IsEscalateStep =>
          \A i \in 1..Len(issues.zombie_claims) :
              tasks[issues.zombie_claims[i].task_id].queue = "claimed" ]_vars

\* The step taken is a mismatch sync that wrote the Store: of the fix as one
\* step, or of its Store update after the existence test.
IsSyncWrite ==
    /\ pc \in {"mismatches", "writing"}
    /\ Len(log') = Len(log) + 1
    /\ log'[Len(log')].fix_type = "file-db-sync"

\* C36: when a mismatch sync writes the Store, the queue it writes is the
\* directory that holds the Mirror file of the task at that moment, and the
\* task is no mismatch after the write.
C36_SyncWritesFileLocation ==
    [][ IsSyncWrite =>
          LET id == issues.file_db_mismatches[cursor].task_id
          IN  /\ FilesOf(mirror, id) # {}
              /\ \A path \in FilesOf(mirror, id) : PathQueue(path) = tasks'[id].queue ]_vars

\* No orphan file is registered twice: the log holds at most one entry of a
\* registration for an id.
OrphansRegisteredOnce ==
    \A id \in Ids :
        Cardinality({ i \in DOMAIN log : /\ log[i].fix_type = "orphan-fix"
                                         /\ log[i].task_id = id }) <= 1

\* No task has its queue changed twice by a sync: the history holds at most
\* one sync event that left the queue different from what it was.
OneEffectiveSync ==
    \A id \in Ids :
        Cardinality({ i \in DOMAIN history : /\ history[i].event = "file_db_sync"
                                             /\ history[i].task_id = id
                                             /\ history[i].from # history[i].to }) <= 1

\* The Store, the Mirror and the quarantine area two passes in a row leave
\* when they start from the world w.
InARow(w) ==
    { LET end == run_pass(NewPass, run_pass(NewPass, w, agents, now, o1), agents, now, o2)
      IN  << end.tasks, end.mirror, end.quarantine >> : o1, o2 \in Orders }

\* Both passes have ended.
BothDone == pc = "done" /\ pass2.pc = "done"

\* C37: of two passes started while neither has ended, no orphan file is
\* registered twice, no mismatch changes the queue of its task twice, and
\* when both have ended the Store, the Mirror and the quarantine area are
\* what the two passes leave when one runs after the other.
C37_TwoPassesAsInARow ==
    /\ OrphansRegisteredOnce
    /\ OneEffectiveSync
    /\ BothDone => << tasks, mirror, quarantine >> \in InARow(pass2.start[1])


====
